---- MODULE Spec2Model ----
(***************************************************************************)
(* Plaid Shell (plaidsh): the tokenizer (src/unnamed/part_001), the parser *)
(* (src/parse.c), the pipeline AST with its printer and its executor       *)
(* (src/pipeline.c, the revision whose AST_execute returns the exit value, *)
(* lines 734-1170) and the read loop of main (src/unnamed/part_000).       *)
(*                                                                         *)
(* The specifications of the module:                                       *)
(*   SpecParse     Parse() run on every bounded token stream, one loop     *)
(*                 iteration per step;                                     *)
(*   SpecExec      AST_execute() run on every bounded pipeline AST, the    *)
(*                 shell process and its forked children interleaved;      *)
(*   SpecExecGlob  SpecExec with pipelines in which pattern expansion      *)
(*                 returned words spelled like operators;                  *)
(*   FairSpecExec  SpecExec with the scheduling guarantees of the kernel;  *)
(*   SpecShell     the read loop of main, line after line;                 *)
(*   SpecTokenize  TOK_tokenize_input() run on every bounded line, one     *)
(*                 loop iteration per step;                                *)
(*   SpecRender    AST_pipeline2str() run on every bounded pipeline and    *)
(*                 buffer capacity, byte by byte;                          *)
(*   SpecRoundTrip a line tokenized, parsed and printed, and the string    *)
(*                 printed tokenized, parsed and printed again.            *)
(***************************************************************************)
EXTENDS Integers, Sequences, FiniteSets, TLC

(***************************************************************************)
(* Bounds of the model.                                                    *)
(***************************************************************************)
\* longest token stream handed to Parse
MaxTokens == 7
\* most stages (commands) of an executed pipeline
MaxStages == 3

(***************************************************************************)
(* Program constants.                                                      *)
(***************************************************************************)
\* token.h: TokenType
TOK_WORD == 0
TOK_QUOTED_WORD == 1
TOK_LESSTHAN == 2
TOK_GREATERTHAN == 3
TOK_PIPE == 4
TOK_END == 5

\* pipeline.h: ASTNodeType.  Parse hands a TokenType to the node constructors
\* where an ASTNodeType is expected: the enumerators agree number by number.
WORD == 0
QUOTED_WORD == 1
OP_LESSTHAN == 2
OP_GREATERTHAN == 3
OP_PIPE == 4

\* <stdlib.h>, <unistd.h>
EXIT_FAILURE == 1
STDIN_FILENO == 0
STDOUT_FILENO == 1

\* a char* that is NULL
NullStr == "(null)"

VARIABLES
    \* ---- Parse (src/parse.c) ----
    tokens,         \* the CList of tokens still to be consumed
    ret,            \* the pipeline accumulated so far (local `ret`)
    errmsg,         \* the caller's error buffer ("" when *errmsg == 0)
    redirect_in,    \* local counter of < tokens met
    redirect_out,   \* local counter of > tokens met
    parse_pc,       \* "idle" | "loop" | "returned"
    parse_result,   \* the AST Parse returned
    stream,         \* the token stream as the caller handed it to Parse
    allocated,      \* AST nodes malloc'ed since Parse was called
    freed,          \* AST nodes free'd since Parse was called
    \* ---- AST_execute (src/pipeline.c) ----
    pipeline,       \* the AST handed to AST_execute
    argvs,          \* argvs[i]: argv of stage i as setargs built it (1-based)
    num_pipes,      \* AST_countpipes(pipeline)
    fds,            \* fds[k] = <<read fd, write fd>> of pipe k (1-based)
    ppc,            \* the shell process: "idle" | "pipe" | "stage" | "close"
                    \*   | "wait" | "returned" | "exited"
    idx,            \* the loop variable i of the loop the shell is in (0-based)
    pfd,            \* the shell's descriptor table: fd -> open file
    exit_val,       \* local exit_val
    cwd,            \* working directory of the shell process
    shell_status,   \* status the shell passed to _exit, -1 while it runs
    cpc,            \* cpc[i]: child of stage i: "none" | "closefds" | "redirect"
                    \*   | "wire" | "exec" | "running" | "zombie" | "reaped"
    cfd,            \* cfd[i]: descriptor table of the child of stage i
    cargv,          \* cargv[i]: the child's argv (it shifts redirections out)
    ccwd,           \* ccwd[i]: working directory the child inherited at fork
    cstatus,        \* cstatus[i]: wait status of the terminated child
    reaped,         \* stages in the order wait() returned their children
    \* ---- main (src/unnamed/part_000) ----
    main_pc,        \* "idle" | "read" | "parse" | "execute" | "loop_end" | "returned"
    input,          \* the line readline() returned, as its characters
    time_to_quit,   \* local time_to_quit
    printed,        \* what main wrote to stderr since it read the line
    \* ---- TOK_tokenize_input (src/unnamed/part_001), called on its own ----
    tok_pc,         \* "idle" | "loop" | "returned"
    tok_line,       \* the string the caller passed, as its characters
    tok_input,      \* the pointer `input`: the position (1-based) it points to
    tok_start,      \* the pointer `start`: a position, 0 when NULL
    tok_tokens,     \* the CList `tokens`
    tok_errmsg,     \* the caller's error buffer
    tok_null,       \* the function returned NULL
    tok_freed,      \* how many tokens CL_free released
    \* ---- AST_pipeline2str (src/pipeline.c), called on its own ----
    str_pc,         \* "idle" | "call" | "trim" | "terminate" | "returned" | "aborted"
    str_pipeline,   \* the AST to print
    buf,            \* the caller's buffer: buf[i] for i in 0..buf_sz-1
    buf_sz,         \* its size in bytes
    size,           \* the global `size`; -k stands for the size_t 2^64 - k
    outside,        \* the offsets from buf, outside the buffer, read or written
    \* ---- the caller of the three functions ----
    passes          \* the lines tokenized, parsed and printed so far, each with
                    \*   its pipeline and the string printed for it

parseVars == <<tokens, ret, errmsg, redirect_in, redirect_out, parse_pc, parse_result,
               stream, allocated, freed>>
shellVars == <<pipeline, argvs, num_pipes, fds, ppc, idx, pfd, exit_val, cwd,
               shell_status, reaped>>
childVars == <<cpc, cfd, cargv, ccwd, cstatus>>
execVars == <<shellVars, childVars>>
mainVars == <<main_pc, input, time_to_quit, printed>>
tokVars == <<tok_pc, tok_line, tok_input, tok_start, tok_tokens, tok_errmsg, tok_null,
             tok_freed>>
strVars == <<str_pc, str_pipeline, buf, buf_sz, size, outside>>
testVars == <<tokVars, strVars, passes>>
vars == <<parseVars, execVars, mainVars, testVars>>

(***************************************************************************)
(* The pipeline AST (struct _ast_node and its constructors).               *)
(***************************************************************************)
\* the NULL pointer
NULL == [type |-> -1]

IsNull(p) == p.type = -1

isword(type) == type = WORD \/ type = QUOTED_WORD

\* AST_word with the type argument ignored: every node made is a WORD
AST_word_AlwaysWord(type, right, value) ==
    [type |-> WORD, value |-> value, left |-> NULL, right |-> right]

AST_word(type, right, value) ==
    [type |-> type, value |-> value, left |-> NULL, right |-> right]

AST_redirect(type, right) ==
    [type |-> type, value |-> NullStr, left |-> NULL, right |-> right]

\* AST_pipe with the two operands stored the other way round
AST_pipe_Swapped(left, right) ==
    [type |-> OP_PIPE, value |-> NullStr, left |-> right, right |-> left]

AST_pipe(left, right) ==
    [type |-> OP_PIPE, value |-> NullStr, left |-> left, right |-> right]

\* what the constructors assert of their arguments (src/pipeline.c:808-809,
\* 826-827, 842); a NULL value is the string NullStr
AST_word_asserts(type, value) ==
    (type = WORD \/ type = QUOTED_WORD) /\ value # NullStr

AST_redirect_asserts(type, right) ==
    /\ type = OP_LESSTHAN \/ type = OP_GREATERTHAN
    /\ ~IsNull(right)
    /\ right.type = WORD

AST_pipe_asserts(left, right) == ~IsNull(left) /\ ~IsNull(right)

\* the walk left out: the new chain is linked right behind the first node
LinkAtEnd_NoWalk(node, right) == [node EXCEPT !.right = right]

\* the walk `while (temp && temp->right) temp = temp->right; temp->right = right`
RECURSIVE LinkAtEnd(_, _)
LinkAtEnd(node, right) ==
    IF IsNull(node.right)
    THEN [node EXCEPT !.right = right]
    ELSE [node EXCEPT !.right = LinkAtEnd(node.right, right)]

\* AST_append(&p, right): the value of p afterwards
AST_append(p, right) ==
    IF IsNull(right) THEN p
    ELSE IF IsNull(p) THEN right
    ELSE LinkAtEnd(p, right)

AST_type(p) == p.type

RECURSIVE AST_countnodes(_)
AST_countnodes(p) ==
    IF IsNull(p) THEN 0
    ELSE 1 + (IF p.type = OP_PIPE THEN AST_countnodes(p.left) ELSE 0)
           + AST_countnodes(p.right)

RECURSIVE AST_countpipes(_)
AST_countpipes(p) ==
    IF IsNull(p) \/ p.type # OP_PIPE THEN 0
    ELSE 1 + AST_countpipes(p.left)

AST_countcommands(p) == 1 + AST_countpipes(p)

\* AST_free(p) with the left subtree of a pipe node forgotten
RECURSIVE AST_free_RightOnly(_)
AST_free_RightOnly(p) ==
    IF IsNull(p) THEN 0
    ELSE AST_free_RightOnly(p.right) + 1

\* AST_free(p): the number of nodes it hands to free(), each node it visits
\* once: the right chain, the left subtree of a pipe node, the node itself
RECURSIVE AST_free(_)
AST_free(p) ==
    IF IsNull(p) THEN 0
    ELSE AST_free(p.right)
         + (IF p.type = OP_PIPE THEN AST_free(p.left) ELSE 0)
         + 1

(***************************************************************************)
(* Tokens and the pattern-matching service glob(3).                        *)
(***************************************************************************)
Token(type, value) == [type |-> type, value |-> value]

\* lexemes of the bounded token streams
WordValues == {"ls"}
QuotedValues == {"\"q\""}

TokenAlphabet ==
    {Token(TOK_WORD, v) : v \in WordValues}
    \cup {Token(TOK_QUOTED_WORD, v) : v \in QuotedValues}
    \cup {Token(TOK_LESSTHAN, NullStr), Token(TOK_GREATERTHAN, NullStr),
          Token(TOK_PIPE, NullStr)}

TokenStreams == UNION {[1..n -> TokenAlphabet] : n \in 0..MaxTokens}

TOK_next_type(toks) == IF Len(toks) > 0 THEN Head(toks).type ELSE TOK_END

\* What glob(value, GLOB_TILDE_CHECK | GLOB_NOCHECK, ...) can answer: a non-zero
\* exit, or gl_pathv: the pattern itself (GLOB_NOCHECK) or the path names matched.
GlobOutcomes(value) ==
    { [exit |-> 0, pathv |-> <<value>>],
      [exit |-> 0, pathv |-> <<"a", "b">>],
      [exit |-> 1, pathv |-> <<>>] }

\* the loop of glob_append: AST_append(pipelinep, AST_word(WORD, 0, gl_pathv[i]))
RECURSIVE AppendWords(_, _)
AppendWords(p, pathv) ==
    IF pathv = <<>> THEN p
    ELSE AppendWords(AST_append(p, AST_word(WORD, NULL, Head(pathv))), Tail(pathv))

\* glob_append(&p, value) when glob answered g: the exit value and p afterwards
glob_append(p, g) ==
    IF g.exit # 0 THEN [exit |-> g.exit, p |-> p]
    ELSE [exit |-> 0, p |-> AppendWords(p, g.pathv)]

(***************************************************************************)
(* Parse (src/parse.c:49-146), one iteration of its while loop per step.   *)
(* The last else branch ("Unexpected token") is not modelled as a step:    *)
(* TokenType has no enumerator besides the five tested and TOK_END.        *)
(***************************************************************************)
\* ParseFail with `return ret` for `return NULL`
ParseFail_ReturnsRet(msg, made, dropped) ==
    /\ errmsg' = msg
    /\ allocated' = allocated + made
    /\ freed' = freed + dropped + AST_free(ret)
    /\ ret' = ret
    /\ parse_result' = ret
    /\ parse_pc' = "returned"

\* the error return: errmsg holds msg, AST_free(ret), return NULL.  Before it
\* the iteration malloc'ed `made` nodes and free'd `dropped` nodes of its own
\* (the pending chain tempfile or tempcmd).
ParseFail(msg, made, dropped) ==
    /\ errmsg' = msg
    /\ allocated' = allocated + made
    /\ freed' = freed + dropped + AST_free(ret)
    /\ ret' = NULL
    /\ parse_result' = NULL
    /\ parse_pc' = "returned"

\* the chain c holds a < or > node
RECURSIVE HoldsRedirect(_)
HoldsRedirect(c) ==
    /\ ~IsNull(c)
    /\ (c.type = OP_LESSTHAN \/ c.type = OP_GREATERTHAN \/ HoldsRedirect(c.right))

\* RedirectErrmsg with the second check made on the open chain: "No command
\* specified" when that chain already holds a redirection
RedirectErrmsg_ChainHasRedirect(p, rin, rout, next_tt) ==
    LET open == IF ~IsNull(p) /\ AST_type(p) = OP_PIPE THEN p.right ELSE p
        e1 == IF IsNull(p) THEN "No command specified" ELSE ""
        e2 == IF ~IsNull(p) /\ HoldsRedirect(open)
              THEN "No command specified" ELSE e1
        e3 == IF e2 = "" /\ (rin > 1 \/ rout > 1)
              THEN "Multiple redirection" ELSE e2
    IN  IF e3 = "" /\ next_tt # TOK_WORD
        THEN "Expect filename after redirection" ELSE e3

\* RedirectErrmsg with one counter for both directions
RedirectErrmsg_OneCounter(p, rin, rout, next_tt) ==
    LET e1 == IF IsNull(p) THEN "No command specified" ELSE ""
        e2 == IF ~IsNull(p) /\ (AST_type(p) = OP_LESSTHAN \/ AST_type(p) = OP_GREATERTHAN)
              THEN "No command specified" ELSE e1
        e3 == IF e2 = "" /\ rin + rout > 1
              THEN "Multiple redirection" ELSE e2
    IN  IF e3 = "" /\ next_tt # TOK_WORD
        THEN "Expect filename after redirection" ELSE e3

\* RedirectErrmsg with a QuotedWord accepted for the file name
RedirectErrmsg_QuotedFilename(p, rin, rout, next_tt) ==
    LET e1 == IF IsNull(p) THEN "No command specified" ELSE ""
        e2 == IF ~IsNull(p) /\ (AST_type(p) = OP_LESSTHAN \/ AST_type(p) = OP_GREATERTHAN)
              THEN "No command specified" ELSE e1
        e3 == IF e2 = "" /\ (rin > 1 \/ rout > 1)
              THEN "Multiple redirection" ELSE e2
    IN  IF e3 = "" /\ next_tt # TOK_WORD /\ next_tt # TOK_QUOTED_WORD
        THEN "Expect filename after redirection" ELSE e3

\* RedirectErrmsg with the counters tested for > 2
RedirectErrmsg_ThirdIsMultiple(p, rin, rout, next_tt) ==
    LET e1 == IF IsNull(p) THEN "No command specified" ELSE ""
        e2 == IF ~IsNull(p) /\ (AST_type(p) = OP_LESSTHAN \/ AST_type(p) = OP_GREATERTHAN)
              THEN "No command specified" ELSE e1
        e3 == IF e2 = "" /\ (rin > 2 \/ rout > 2)
              THEN "Multiple redirection" ELSE e2
    IN  IF e3 = "" /\ next_tt # TOK_WORD
        THEN "Expect filename after redirection" ELSE e3

\* RedirectErrmsg with `&&` written for `||` in the test of the two counters
RedirectErrmsg_BothCounters(p, rin, rout, next_tt) ==
    LET e1 == IF IsNull(p) THEN "No command specified" ELSE ""
        e2 == IF ~IsNull(p) /\ (AST_type(p) = OP_LESSTHAN \/ AST_type(p) = OP_GREATERTHAN)
              THEN "No command specified" ELSE e1
        e3 == IF e2 = "" /\ (rin > 1 /\ rout > 1)
              THEN "Multiple redirection" ELSE e2
    IN  IF e3 = "" /\ next_tt # TOK_WORD
        THEN "Expect filename after redirection" ELSE e3

\* src/parse.c:75-86: the message left in errmsg by the checks of a < or >
RedirectErrmsg(p, rin, rout, next_tt) ==
    LET e1 == IF IsNull(p) THEN "No command specified" ELSE ""
        e2 == IF ~IsNull(p) /\ (AST_type(p) = OP_LESSTHAN \/ AST_type(p) = OP_GREATERTHAN)
              THEN "No command specified" ELSE e1
        e3 == IF e2 = "" /\ (rin > 1 \/ rout > 1)
              THEN "Multiple redirection" ELSE e2
    IN  IF e3 = "" /\ next_tt # TOK_WORD
        THEN "Expect filename after redirection" ELSE e3

\* PipeErrmsg with the message of the empty pipeline changed
PipeErrmsg_UnexpectedPipe(p, next_tt) ==
    LET e1 == IF IsNull(p) THEN "Unexpected token PIPE" ELSE ""
    IN  IF e1 = "" /\ next_tt # TOK_WORD /\ next_tt # TOK_QUOTED_WORD
        THEN "No command specified" ELSE e1

\* PipeErrmsg with only the end of the stream refused behind the |
PipeErrmsg_EndOnly(p, next_tt) ==
    LET e1 == IF IsNull(p) THEN "No command specified" ELSE ""
    IN  IF e1 = "" /\ next_tt = TOK_END
        THEN "No command specified" ELSE e1

\* src/parse.c:108-113: the message left in errmsg by the checks of a |
PipeErrmsg(p, next_tt) ==
    LET e1 == IF IsNull(p) THEN "No command specified" ELSE ""
    IN  IF e1 = "" /\ next_tt # TOK_WORD /\ next_tt # TOK_QUOTED_WORD
        THEN "No command specified" ELSE e1

\* the state on entry to the loop of Parse; AST_execute has not been called
ParseInit ==
    /\ tokens \in TokenStreams
    /\ stream = tokens
    /\ allocated = 0
    /\ freed = 0
    /\ ret = NULL
    /\ errmsg = ""
    /\ redirect_in = 0
    /\ redirect_out = 0
    /\ parse_pc = "loop"
    /\ parse_result = NULL
    /\ pipeline = NULL
    /\ argvs = <<>>
    /\ num_pipes = 0
    /\ fds = <<>>
    /\ ppc = "idle"
    /\ idx = 0
    /\ pfd = <<>>
    /\ exit_val = 0
    /\ cwd = ""
    /\ shell_status = -1
    /\ reaped = <<>>
    /\ cpc = <<>>
    /\ cfd = <<>>
    /\ cargv = <<>>
    /\ ccwd = <<>>
    /\ cstatus = <<>>
    /\ main_pc = "idle"
    /\ input = <<>>
    /\ time_to_quit = FALSE
    /\ printed = <<>>
    /\ tok_pc = "idle"
    /\ tok_line = <<>>
    /\ tok_input = 1
    /\ tok_start = 0
    /\ tok_tokens = <<>>
    /\ tok_errmsg = ""
    /\ tok_null = FALSE
    /\ tok_freed = 0
    /\ str_pc = "idle"
    /\ str_pipeline = NULL
    /\ buf = <<>>
    /\ buf_sz = 0
    /\ size = 0
    /\ outside = {}
    /\ passes = <<>>

\* src/parse.c:61
ParseQuotedWord ==
    /\ parse_pc = "loop"
    /\ TOK_next_type(tokens) = TOK_QUOTED_WORD
    /\ ret' = AST_append(ret, AST_word(TOK_QUOTED_WORD, NULL, Head(tokens).value))
    /\ allocated' = allocated + 1
    /\ tokens' = Tail(tokens)
    /\ UNCHANGED <<errmsg, redirect_in, redirect_out, parse_pc, parse_result, stream, freed>>
    /\ UNCHANGED execVars
    /\ UNCHANGED mainVars
    /\ UNCHANGED testVars

\* src/parse.c:62-70
ParseWord ==
    /\ parse_pc = "loop"
    /\ TOK_next_type(tokens) = TOK_WORD
    /\ tokens' = Tail(tokens)
    /\ \E g \in GlobOutcomes(Head(tokens).value) :
         LET r == glob_append(ret, g)
         IN  IF r.exit # 0
             THEN ParseFail("Glob encountered an error", 0, 0)
             ELSE /\ ret' = r.p
                  /\ allocated' = allocated + Len(g.pathv)
                  /\ UNCHANGED <<errmsg, parse_pc, parse_result, freed>>
    /\ UNCHANGED <<redirect_in, redirect_out, stream>>
    /\ UNCHANGED execVars
    /\ UNCHANGED mainVars
    /\ UNCHANGED testVars

\* src/parse.c:71-106
ParseRedirect ==
    /\ parse_pc = "loop"
    /\ TOK_next_type(tokens) \in {TOK_LESSTHAN, TOK_GREATERTHAN}
    /\ LET tt == Head(tokens).type
           rest == Tail(tokens)
           rin == redirect_in + (IF tt = TOK_LESSTHAN THEN 1 ELSE 0)
           rout == redirect_out + (IF tt = TOK_GREATERTHAN THEN 1 ELSE 0)
           msg == RedirectErrmsg(ret, rin, rout, TOK_next_type(rest))
       IN  /\ redirect_in' = rin
           /\ redirect_out' = rout
           /\ IF msg # ""
              THEN /\ ParseFail(msg, 0, 0)
                   /\ tokens' = rest
              ELSE /\ tokens' = Tail(rest)
                   /\ \E g \in GlobOutcomes(Head(rest).value) :
                        LET r == glob_append(NULL, g)
                        IN  IF r.exit # 0
                            THEN ParseFail("Glob encountered an error", 0, AST_free(r.p))
                            ELSE /\ ret' = AST_append(ret, AST_redirect(tt, r.p))
                                 /\ allocated' = allocated + Len(g.pathv) + 1
                                 /\ UNCHANGED <<errmsg, parse_pc, parse_result, freed>>
    /\ UNCHANGED stream
    /\ UNCHANGED execVars
    /\ UNCHANGED mainVars
    /\ UNCHANGED testVars

\* src/parse.c:107-136.  After a WORD the node made at line 122 is freed at line
\* 124 and the command is built again by glob_append.
ParsePipe ==
    /\ parse_pc = "loop"
    /\ TOK_next_type(tokens) = TOK_PIPE
    /\ LET rest == Tail(tokens)
           next_tt == TOK_next_type(rest)
           msg == PipeErrmsg(ret, next_tt)
       IN  IF msg # ""
           THEN /\ ParseFail(msg, 0, 0)
                /\ tokens' = rest
           ELSE LET tempcmd == AST_word(next_tt, NULL, Head(rest).value)
                IN  /\ tokens' = Tail(rest)
                    /\ IF next_tt = TOK_WORD
                       THEN \E g \in GlobOutcomes(Head(rest).value) :
                              LET r == glob_append(NULL, g)
                              IN  IF r.exit # 0
                                  THEN ParseFail("Glob encountered an error", 1,
                                                 AST_free(tempcmd) + AST_free(r.p))
                                  ELSE /\ ret' = AST_pipe(ret, r.p)
                                       /\ allocated' = allocated + 1 + Len(g.pathv) + 1
                                       /\ freed' = freed + AST_free(tempcmd)
                                       /\ UNCHANGED <<errmsg, parse_pc, parse_result>>
                       ELSE /\ ret' = AST_pipe(ret, tempcmd)
                            /\ allocated' = allocated + 2
                            /\ UNCHANGED <<errmsg, parse_pc, parse_result, freed>>
    /\ UNCHANGED <<redirect_in, redirect_out, stream>>
    /\ UNCHANGED execVars
    /\ UNCHANGED mainVars
    /\ UNCHANGED testVars

\* src/parse.c:56,145: the stream is exhausted, `return ret`
ParseReturn ==
    /\ parse_pc = "loop"
    /\ TOK_next_type(tokens) = TOK_END
    /\ parse_result' = ret
    /\ parse_pc' = "returned"
    /\ UNCHANGED <<tokens, ret, errmsg, redirect_in, redirect_out, stream, allocated, freed>>
    /\ UNCHANGED execVars
    /\ UNCHANGED mainVars
    /\ UNCHANGED testVars

(***************************************************************************)
(* Descriptor tables.  A table maps every descriptor number to the open    *)
(* file it names; the kernel hands out the lowest free number.             *)
(***************************************************************************)
FdNums == 0..(2 * MaxStages + 2)

Closed == [kind |-> "closed", id |-> 0, end |-> "-"]
Tty == [kind |-> "tty", id |-> 0, end |-> "-"]
PipeEnd(k, e) == [kind |-> "pipe", id |-> k, end |-> e]
\* a redirection target opened for reading ("r") or writing ("w")
File(e) == [kind |-> "file", id |-> 0, end |-> e]

AllClosed == [fd \in FdNums |-> Closed]

\* the table a shell starts with: the terminal on 0, 1 and 2
ShellTable ==
    [fd \in FdNums |-> IF fd \in 0..2 THEN Tty ELSE Closed]

LowestFree(tbl) ==
    CHOOSE fd \in FdNums : /\ tbl[fd] = Closed
                           /\ \A g \in FdNums : g < fd => tbl[g] # Closed

\* close(fd)
close(tbl, fd) == [tbl EXCEPT ![fd] = Closed]

\* dup2(oldfd, newfd): EBADF on a closed oldfd, nothing to do when they are equal
dup2(tbl, oldfd, newfd) ==
    IF tbl[oldfd] = Closed \/ oldfd = newfd THEN tbl
    ELSE [tbl EXCEPT ![newfd] = tbl[oldfd]]

\* pipe(fds[k]): the table afterwards and the two numbers stored in fds[k]
pipe(tbl, k) ==
    LET r == LowestFree(tbl)
        t1 == [tbl EXCEPT ![r] = PipeEnd(k, "r")]
        w == LowestFree(t1)
    IN  [tbl |-> [t1 EXCEPT ![w] = PipeEnd(k, "w")], pair |-> <<r, w>>]

\* the table holds an open descriptor of end e of pipe k
Holds(tbl, k, e) == \E fd \in FdNums : tbl[fd] = PipeEnd(k, e)

(***************************************************************************)
(* setargs (src/pipeline.c:923-950): one argv per stage, left to right.    *)
(* An argv is the sequence argv[0], ..., argv[argc-1] (its NULL terminator *)
(* is left out); At(argv, j) is the C expression argv[j].                  *)
(***************************************************************************)
At(argv, j) == IF j + 1 \in 1..Len(argv) THEN argv[j + 1] ELSE NullStr

RECURSIVE ChainArgv(_)
ChainArgv(node) ==
    IF IsNull(node) THEN <<>>
    ELSE (IF isword(node.type) THEN <<node.value>>
          ELSE IF node.type = OP_LESSTHAN THEN <<"<">>
          ELSE IF node.type = OP_GREATERTHAN THEN <<">">>
          ELSE <<>>)
         \o ChainArgv(node.right)

RECURSIVE StageArgvs(_)
StageArgvs(p) ==
    IF p.type = OP_PIPE
    THEN Append(StageArgvs(p.left), ChainArgv(p.right))
    ELSE <<ChainArgv(p)>>

\* argvs as the 0-based array AST_execute indexes
setargs(p) ==
    LET s == StageArgvs(p)
    IN  [i \in 0..(Len(s) - 1) |-> s[i + 1]]

(***************************************************************************)
(* The pipelines AST_execute is run on: ASTs of the shape Parse returns,   *)
(* built with the node constructors.                                       *)
(***************************************************************************)
Commands == {"ls", "cd", "exit", "quit"}
\* the argument of a cd stage, "none" for a stage without arguments
Args == {"none", "d"}
Redirs == {"none", "in", "out", "inout"}

RedirectNode(type) == AST_redirect(type, AST_word(WORD, NULL, "f"))

StageChain(st) ==
    LET cmd == AST_word(WORD, NULL, st.cmd)
        c0 == IF st.arg # "none"
              THEN AST_append(cmd, AST_word(WORD, NULL, st.arg)) ELSE cmd
        c1 == IF st.redir \in {"in", "inout"}
              THEN AST_append(c0, RedirectNode(OP_LESSTHAN)) ELSE c0
    IN  IF st.redir \in {"out", "inout"}
        THEN AST_append(c1, RedirectNode(OP_GREATERTHAN)) ELSE c1

RECURSIVE BuildPipeline(_)
BuildPipeline(stages) ==
    IF Len(stages) = 1 THEN StageChain(stages[1])
    ELSE AST_pipe(BuildPipeline(SubSeq(stages, 1, Len(stages) - 1)),
                  StageChain(stages[Len(stages)]))

StageDescs ==
    {st \in [cmd : Commands, arg : Args, redir : Redirs] :
        st.arg # "none" => st.cmd = "cd"}

\* Parse lets at most one < and one > into a pipeline
AtMostOne(stages, kinds) ==
    Cardinality({i \in 1..Len(stages) : stages[i].redir \in kinds}) <= 1

ExecPipelines ==
    { BuildPipeline(stages) :
        stages \in { s \in UNION {[1..n -> StageDescs] : n \in 1..MaxStages} :
                        /\ AtMostOne(s, {"in", "inout"})
                        /\ AtMostOne(s, {"out", "inout"}) } }

\* path names glob() can return for a pattern when files of these names exist
GlobbedNames == {"<", ">"}

\* the chain Parse builds for the Word tokens of `ls PATTERN f` when glob()
\* answers name for the pattern: three Word nodes and no redirection node
GlobbedChain(name) == AppendWords(NULL, <<"ls", name, "f">>)

\* the pipelines executed, those with such chains among them
GlobbedPipelines ==
    ExecPipelines
    \cup {GlobbedChain(g) : g \in GlobbedNames}
    \cup {AST_pipe(GlobbedChain(g), GlobbedChain(h)) : g, h \in GlobbedNames}

(***************************************************************************)
(* Wait statuses (<sys/wait.h>).                                           *)
(***************************************************************************)
\* the status wait() stores for a child that called _exit(code)
W_EXITCODE(code) == (code % 256) * 256
\* ... and for a child that a signal terminated
W_SIGNALED(sig) == sig
WEXITSTATUS(status) == (status \div 256) % 256

\* how a program that was exec'ed can end: exit(0), exit(2), killed by SIGKILL
ProgramStatuses == {W_EXITCODE(0), W_EXITCODE(2), W_SIGNALED(9)}

(***************************************************************************)
(* AST_execute (src/pipeline.c:954-1106): the shell process.               *)
(***************************************************************************)
num_children == num_pipes + 1
Stages == 0..(num_children - 1)
Pipes == 0..(num_pipes - 1)

HomeDir == "/home/user"
StartDir == "/start"

\* the test of line 977 with "quit" forgotten
IsExitCommand_ExitOnly(name) == name = "exit"

\* src/pipeline.c:977: !strcmp(argv[0], "exit") || !strcmp(argv[0], "quit")
IsExitCommand(name) == name = "exit" \/ name = "quit"

\* src/pipeline.c:981: !strcmp(argv[0], "cd")
IsCdCommand(name) == name = "cd"

\* _exit(status) in the shell process
ShellExit(status) ==
    /\ ppc' = "exited"
    /\ shell_status' = status
    /\ pfd' = AllClosed

\* the stage loop bounded by num_pipes for num_children
AfterStage_BoundedByPipes == IF idx + 1 < num_pipes THEN "stage" ELSE "close"

\* where the stage loop (src/pipeline.c:972) goes after stage idx
AfterStage == IF idx + 1 < num_children THEN "stage" ELSE "close"

\* the state on entry to AST_execute, after setargs; Parse is not running
ExecInit ==
    /\ pipeline \in ExecPipelines
    /\ argvs = setargs(pipeline)
    /\ num_pipes = AST_countpipes(pipeline)
    /\ fds = [k \in 0..(AST_countpipes(pipeline) - 1) |-> <<-1, -1>>]
    /\ ppc = IF AST_countpipes(pipeline) > 0 THEN "pipe" ELSE "stage"
    /\ idx = 0
    /\ pfd = ShellTable
    /\ exit_val = 0
    /\ cwd = StartDir
    /\ shell_status = -1
    /\ reaped = <<>>
    /\ cpc = [i \in 0..AST_countpipes(pipeline) |-> "none"]
    /\ cfd = [i \in 0..AST_countpipes(pipeline) |-> AllClosed]
    /\ cargv = [i \in 0..AST_countpipes(pipeline) |-> <<>>]
    /\ ccwd = [i \in 0..AST_countpipes(pipeline) |-> ""]
    /\ cstatus = [i \in 0..AST_countpipes(pipeline) |-> -1]
    /\ tokens = <<>>
    /\ stream = <<>>
    /\ allocated = 0
    /\ freed = 0
    /\ ret = NULL
    /\ errmsg = ""
    /\ redirect_in = 0
    /\ redirect_out = 0
    /\ parse_pc = "idle"
    /\ parse_result = NULL
    /\ main_pc = "idle"
    /\ input = <<>>
    /\ time_to_quit = FALSE
    /\ printed = <<>>
    /\ tok_pc = "idle"
    /\ tok_line = <<>>
    /\ tok_input = 1
    /\ tok_start = 0
    /\ tok_tokens = <<>>
    /\ tok_errmsg = ""
    /\ tok_null = FALSE
    /\ tok_freed = 0
    /\ str_pc = "idle"
    /\ str_pipeline = NULL
    /\ buf = <<>>
    /\ buf_sz = 0
    /\ size = 0
    /\ outside = {}
    /\ passes = <<>>

\* the state on entry to AST_execute for the pipelines GlobbedPipelines
GlobExecInit ==
    /\ pipeline \in GlobbedPipelines
    /\ argvs = setargs(pipeline)
    /\ num_pipes = AST_countpipes(pipeline)
    /\ fds = [k \in 0..(AST_countpipes(pipeline) - 1) |-> <<-1, -1>>]
    /\ ppc = IF AST_countpipes(pipeline) > 0 THEN "pipe" ELSE "stage"
    /\ idx = 0
    /\ pfd = ShellTable
    /\ exit_val = 0
    /\ cwd = StartDir
    /\ shell_status = -1
    /\ reaped = <<>>
    /\ cpc = [i \in 0..AST_countpipes(pipeline) |-> "none"]
    /\ cfd = [i \in 0..AST_countpipes(pipeline) |-> AllClosed]
    /\ cargv = [i \in 0..AST_countpipes(pipeline) |-> <<>>]
    /\ ccwd = [i \in 0..AST_countpipes(pipeline) |-> ""]
    /\ cstatus = [i \in 0..AST_countpipes(pipeline) |-> -1]
    /\ tokens = <<>>
    /\ stream = <<>>
    /\ allocated = 0
    /\ freed = 0
    /\ ret = NULL
    /\ errmsg = ""
    /\ redirect_in = 0
    /\ redirect_out = 0
    /\ parse_pc = "idle"
    /\ parse_result = NULL
    /\ main_pc = "idle"
    /\ input = <<>>
    /\ time_to_quit = FALSE
    /\ printed = <<>>
    /\ tok_pc = "idle"
    /\ tok_line = <<>>
    /\ tok_input = 1
    /\ tok_start = 0
    /\ tok_tokens = <<>>
    /\ tok_errmsg = ""
    /\ tok_null = FALSE
    /\ tok_freed = 0
    /\ str_pc = "idle"
    /\ str_pipeline = NULL
    /\ buf = <<>>
    /\ buf_sz = 0
    /\ size = 0
    /\ outside = {}
    /\ passes = <<>>

\* src/pipeline.c:965-970: pipe(fds[idx]) succeeds
CreatePipe ==
    /\ ppc = "pipe"
    /\ LET r == pipe(pfd, idx)
       IN  /\ pfd' = r.tbl
           /\ fds' = [fds EXCEPT ![idx] = r.pair]
    /\ IF idx + 1 < num_pipes
       THEN idx' = idx + 1 /\ ppc' = "pipe"
       ELSE idx' = 0 /\ ppc' = "stage"
    /\ UNCHANGED <<pipeline, argvs, num_pipes, exit_val, cwd, shell_status, reaped>>
    /\ UNCHANGED childVars
    /\ UNCHANGED parseVars
    /\ UNCHANGED mainVars
    /\ UNCHANGED testVars

\* src/pipeline.c:966-969: pipe() returns -1, the shell calls _exit(EXIT_FAILURE)
CreatePipeFails ==
    /\ ppc = "pipe"
    /\ ShellExit(EXIT_FAILURE)
    /\ UNCHANGED <<pipeline, argvs, num_pipes, fds, idx, exit_val, cwd, reaped>>
    /\ UNCHANGED childVars
    /\ UNCHANGED parseVars
    /\ UNCHANGED mainVars
    /\ UNCHANGED testVars

\* src/pipeline.c:977-980: the stage is exit or quit
StageExit ==
    /\ ppc = "stage"
    /\ IsExitCommand(At(argvs[idx], 0))
    /\ ShellExit(0)
    /\ UNCHANGED <<pipeline, argvs, num_pipes, fds, idx, exit_val, cwd, reaped>>
    /\ UNCHANGED childVars
    /\ UNCHANGED parseVars
    /\ UNCHANGED mainVars
    /\ UNCHANGED testVars

\* StageCd with the children already forked following the shell into the
\* directory, as threads of one process would
StageCd_ChildrenFollow ==
    /\ ppc = "stage"
    /\ ~IsExitCommand(At(argvs[idx], 0))
    /\ IsCdCommand(At(argvs[idx], 0))
    /\ LET dirpath == IF At(argvs[idx], 1) = NullStr THEN HomeDir
                      ELSE At(argvs[idx], 1)
       IN  \E ok \in BOOLEAN :
             /\ cwd' = IF ok THEN dirpath ELSE cwd
             /\ ccwd' = [j \in DOMAIN ccwd |->
                            IF ok /\ cpc[j] # "none" THEN dirpath ELSE ccwd[j]]
    /\ ppc' = AfterStage
    /\ idx' = IF AfterStage = "stage" THEN idx + 1 ELSE 0
    /\ UNCHANGED <<pipeline, argvs, num_pipes, fds, pfd, exit_val, shell_status, reaped>>
    /\ UNCHANGED <<cpc, cfd, cargv, cstatus>>
    /\ UNCHANGED parseVars
    /\ UNCHANGED mainVars
    /\ UNCHANGED testVars

\* src/pipeline.c:981-987: the stage is cd; chdir() succeeds or fails
StageCd ==
    /\ ppc = "stage"
    /\ ~IsExitCommand(At(argvs[idx], 0))
    /\ IsCdCommand(At(argvs[idx], 0))
    /\ LET dirpath == IF At(argvs[idx], 1) = NullStr THEN HomeDir
                      ELSE At(argvs[idx], 1)
       IN  \E ok \in BOOLEAN : cwd' = IF ok THEN dirpath ELSE cwd
    /\ ppc' = AfterStage
    /\ idx' = IF AfterStage = "stage" THEN idx + 1 ELSE 0
    /\ UNCHANGED <<pipeline, argvs, num_pipes, fds, pfd, exit_val, shell_status, reaped>>
    /\ UNCHANGED childVars
    /\ UNCHANGED parseVars
    /\ UNCHANGED mainVars
    /\ UNCHANGED testVars

\* src/pipeline.c:990-994,1083: fork() succeeds; the child starts at line 994
\* with a copy of the shell's descriptor table, argv and working directory
StageFork ==
    /\ ppc = "stage"
    /\ ~IsExitCommand(At(argvs[idx], 0))
    /\ ~IsCdCommand(At(argvs[idx], 0))
    /\ cpc' = [cpc EXCEPT ![idx] = "closefds"]
    /\ cfd' = [cfd EXCEPT ![idx] = pfd]
    /\ cargv' = [cargv EXCEPT ![idx] = argvs[idx]]
    /\ ccwd' = [ccwd EXCEPT ![idx] = cwd]
    /\ ppc' = AfterStage
    /\ idx' = IF AfterStage = "stage" THEN idx + 1 ELSE 0
    /\ UNCHANGED <<pipeline, argvs, num_pipes, fds, pfd, exit_val, cwd, shell_status,
                   reaped, cstatus>>
    /\ UNCHANGED parseVars
    /\ UNCHANGED mainVars
    /\ UNCHANGED testVars

\* src/pipeline.c:990-992: fork() returns -1, the shell calls _exit(EXIT_FAILURE)
StageForkFails ==
    /\ ppc = "stage"
    /\ ~IsExitCommand(At(argvs[idx], 0))
    /\ ~IsCdCommand(At(argvs[idx], 0))
    /\ ShellExit(EXIT_FAILURE)
    /\ UNCHANGED <<pipeline, argvs, num_pipes, fds, idx, exit_val, cwd, reaped>>
    /\ UNCHANGED childVars
    /\ UNCHANGED parseVars
    /\ UNCHANGED mainVars
    /\ UNCHANGED testVars

\* the shell's close loop with close(fds[i][1]) forgotten
ParentCloseTable_ReadEndsOnly(tbl, fdarr, np) ==
    [fd \in FdNums |->
        IF \E k \in 0..(np - 1) : fd = fdarr[k][1]
        THEN Closed ELSE tbl[fd]]

\* src/pipeline.c:1088-1090: the table after the shell's close loop
ParentCloseTable(tbl, fdarr, np) ==
    [fd \in FdNums |->
        IF \E k \in 0..(np - 1) : fd = fdarr[k][1] \/ fd = fdarr[k][2]
        THEN Closed ELSE tbl[fd]]

\* src/pipeline.c:1088-1093
ParentClose ==
    /\ ppc = "close"
    /\ pfd' = ParentCloseTable(pfd, fds, num_pipes)
    /\ ppc' = "wait"
    /\ idx' = 0
    /\ UNCHANGED <<pipeline, argvs, num_pipes, fds, exit_val, cwd, shell_status, reaped>>
    /\ UNCHANGED childVars
    /\ UNCHANGED parseVars
    /\ UNCHANGED mainVars
    /\ UNCHANGED testVars

\* the wait loop written with num_pipes for its bound
WaitCount_Pipes == num_pipes

\* src/pipeline.c:1094: the number of wait() calls the shell makes
WaitCount == num_children

\* exit_val overwritten by every child reaped, a zero status included
WaitExitVal_Overwrite(old, pid, status) ==
    IF pid > 0 THEN WEXITSTATUS(status) ELSE old

\* exit_val keeps the first non-zero exit status it met
WaitExitVal_FirstWins(old, pid, status) ==
    IF pid > 0 /\ WEXITSTATUS(status) # 0 /\ old = 0 THEN WEXITSTATUS(status) ELSE old

\* src/pipeline.c:1098-1102: exit_val after wait() returned pid and status
WaitExitVal(old, pid, status) ==
    IF pid > 0 /\ WEXITSTATUS(status) # 0 THEN WEXITSTATUS(status) ELSE old

\* src/pipeline.c:1094-1103: wait() returns a terminated child, whichever
WaitReaps ==
    /\ ppc = "wait"
    /\ idx < WaitCount
    /\ \E i \in Stages :
         /\ cpc[i] = "zombie"
         /\ cpc' = [cpc EXCEPT ![i] = "reaped"]
         /\ reaped' = Append(reaped, i)
         /\ exit_val' = WaitExitVal(exit_val, i + 1, cstatus[i])
    /\ idx' = idx + 1
    /\ UNCHANGED <<pipeline, argvs, num_pipes, fds, ppc, pfd, cwd, shell_status>>
    /\ UNCHANGED <<cfd, cargv, ccwd, cstatus>>
    /\ UNCHANGED parseVars
    /\ UNCHANGED mainVars
    /\ UNCHANGED testVars

\* src/pipeline.c:1094-1103: wait() returns -1, the shell has no child left
WaitNoChild ==
    /\ ppc = "wait"
    /\ idx < WaitCount
    /\ \A i \in Stages : cpc[i] \in {"none", "reaped"}
    /\ exit_val' = WaitExitVal(exit_val, -1, 0)
    /\ idx' = idx + 1
    /\ UNCHANGED <<pipeline, argvs, num_pipes, fds, ppc, pfd, cwd, shell_status, reaped>>
    /\ UNCHANGED childVars
    /\ UNCHANGED parseVars
    /\ UNCHANGED mainVars
    /\ UNCHANGED testVars

\* src/pipeline.c:1105
ExecReturn ==
    /\ ppc = "wait"
    /\ idx >= WaitCount
    /\ ppc' = "returned"
    /\ UNCHANGED <<pipeline, argvs, num_pipes, fds, idx, pfd, exit_val, cwd,
                   shell_status, reaped>>
    /\ UNCHANGED childVars
    /\ UNCHANGED parseVars
    /\ UNCHANGED mainVars
    /\ UNCHANGED testVars

(***************************************************************************)
(* AST_execute (src/pipeline.c:994-1082): the child forked for stage i.    *)
(***************************************************************************)
\* the child's close loop with the write ends tested against i-1 as well
ChildCloseTable_SameIndex(tbl, fdarr, i, np) ==
    [fd \in FdNums |->
        IF \E j \in 0..(np - 1) : \/ (j # i - 1 /\ fd = fdarr[j][1])
                                  \/ (j # i - 1 /\ fd = fdarr[j][2])
        THEN Closed ELSE tbl[fd]]

\* src/pipeline.c:999-1002: the table after the child's close loop
ChildCloseTable(tbl, fdarr, i, np) ==
    [fd \in FdNums |->
        IF \E j \in 0..(np - 1) : \/ (j # i - 1 /\ fd = fdarr[j][1])
                                  \/ (j # i + 0 /\ fd = fdarr[j][2])
        THEN Closed ELSE tbl[fd]]

\* src/pipeline.c:1007-1010: the last j in 1..argc-2 with argv[j] = op, else -1
ScanFor(argv, op) ==
    LET hits == {j \in 1..(Len(argv) - 2) : At(argv, j) = op}
    IN  IF hits = {} THEN -1
        ELSE CHOOSE j \in hits : \A h \in hits : h <= j

\* src/pipeline.c:1027-1030: argv with argv[j] and argv[j+1] shifted out
ShiftOut(argv, j) ==
    [n \in 1..(Len(argv) - 2) |-> IF n < j + 1 THEN argv[n] ELSE argv[n + 2]]

\* open() succeeded on a redirection target and the descriptor was moved onto
\* std: dup2(fd, std); close(fd)
OpenOnto(tbl, e, std) ==
    LET fd == LowestFree(tbl)
        t1 == [tbl EXCEPT ![fd] = File(e)]
    IN  close(dup2(t1, fd, std), fd)

\* the wiring with a standard stream that a redirection put on a file left alone
WireTable_FileWins(tbl, fdarr, i, n) ==
    LET t1 == IF i > 0 /\ tbl[STDIN_FILENO].kind # "file"
              THEN close(dup2(tbl, fdarr[i - 1][1], STDIN_FILENO), fdarr[i - 1][1])
              ELSE tbl
    IN  IF i < n - 1 /\ tbl[STDOUT_FILENO].kind # "file"
        THEN close(dup2(t1, fdarr[i][2], STDOUT_FILENO), fdarr[i][2])
        ELSE t1

\* the wiring with the close() after each dup2() forgotten
WireTable_NoClose(tbl, fdarr, i, n) ==
    LET t1 == IF i > 0 THEN dup2(tbl, fdarr[i - 1][1], STDIN_FILENO) ELSE tbl
    IN  IF i < n - 1 THEN dup2(t1, fdarr[i][2], STDOUT_FILENO) ELSE t1

\* src/pipeline.c:1056-1066: the table after the pipes were put on stdin/stdout
WireTable(tbl, fdarr, i, n) ==
    LET t1 == IF i > 0
              THEN close(dup2(tbl, fdarr[i - 1][1], STDIN_FILENO), fdarr[i - 1][1])
              ELSE tbl
    IN  IF i < n - 1
        THEN close(dup2(t1, fdarr[i][2], STDOUT_FILENO), fdarr[i][2])
        ELSE t1

\* the process of stage i exists and has not terminated
Alive(i) == cpc[i] \in {"closefds", "redirect", "wire", "exec", "running"}

\* _exit(code), or death by a signal, of the child of stage i
ChildEnds(i, status) ==
    /\ cpc' = [cpc EXCEPT ![i] = "zombie"]
    /\ cstatus' = [cstatus EXCEPT ![i] = status]
    /\ cfd' = [cfd EXCEPT ![i] = AllClosed]

\* src/pipeline.c:999-1002
ChildCloseFds(i) ==
    /\ cpc[i] = "closefds"
    /\ cfd' = [cfd EXCEPT ![i] = ChildCloseTable(cfd[i], fds, i, num_pipes)]
    /\ cpc' = [cpc EXCEPT ![i] = "redirect"]
    /\ UNCHANGED <<cargv, ccwd, cstatus>>
    /\ UNCHANGED shellVars
    /\ UNCHANGED parseVars
    /\ UNCHANGED mainVars
    /\ UNCHANGED testVars

\* src/pipeline.c:1004-1053: both redirections; each open() succeeds or fails
ChildRedirect(i) ==
    /\ cpc[i] = "redirect"
    /\ LET lessthan == ScanFor(cargv[i], "<")
           greaterthan0 == ScanFor(cargv[i], ">")
           argv1 == IF lessthan >= 0 THEN ShiftOut(cargv[i], lessthan) ELSE cargv[i]
           tbl1 == IF lessthan >= 0 THEN OpenOnto(cfd[i], "r", STDIN_FILENO)
                   ELSE cfd[i]
           greaterthan == IF lessthan >= 0 /\ lessthan < greaterthan0
                          THEN greaterthan0 - 2 ELSE greaterthan0
           argv2 == IF greaterthan >= 0 THEN ShiftOut(argv1, greaterthan) ELSE argv1
           tbl2 == IF greaterthan >= 0 THEN OpenOnto(tbl1, "w", STDOUT_FILENO)
                   ELSE tbl1
       IN  \E inOpens, outOpens \in BOOLEAN :
             IF (lessthan >= 0 /\ ~inOpens) \/ (greaterthan >= 0 /\ ~outOpens)
             THEN /\ ChildEnds(i, W_EXITCODE(EXIT_FAILURE))
                  /\ UNCHANGED <<cargv, ccwd>>
             ELSE /\ cfd' = [cfd EXCEPT ![i] = tbl2]
                  /\ cargv' = [cargv EXCEPT ![i] = argv2]
                  /\ cpc' = [cpc EXCEPT ![i] = "wire"]
                  /\ UNCHANGED <<ccwd, cstatus>>
    /\ UNCHANGED shellVars
    /\ UNCHANGED parseVars
    /\ UNCHANGED mainVars
    /\ UNCHANGED testVars

\* src/pipeline.c:1056-1066
ChildWire(i) ==
    /\ cpc[i] = "wire"
    /\ cfd' = [cfd EXCEPT ![i] = WireTable(cfd[i], fds, i, num_children)]
    /\ cpc' = [cpc EXCEPT ![i] = "exec"]
    /\ UNCHANGED <<cargv, ccwd, cstatus>>
    /\ UNCHANGED shellVars
    /\ UNCHANGED parseVars
    /\ UNCHANGED mainVars
    /\ UNCHANGED testVars

\* src/pipeline.c:1068-1075: execlp/execvp loads the program
ChildExec(i) ==
    /\ cpc[i] = "exec"
    /\ cpc' = [cpc EXCEPT ![i] = "running"]
    /\ UNCHANGED <<cfd, cargv, ccwd, cstatus>>
    /\ UNCHANGED shellVars
    /\ UNCHANGED parseVars
    /\ UNCHANGED mainVars
    /\ UNCHANGED testVars

\* src/pipeline.c:1071-1072,1076-1081: exec returned, _exit(EXIT_FAILURE)
ChildExecFails(i) ==
    /\ cpc[i] = "exec"
    /\ ChildEnds(i, W_EXITCODE(EXIT_FAILURE))
    /\ UNCHANGED <<cargv, ccwd>>
    /\ UNCHANGED shellVars
    /\ UNCHANGED parseVars
    /\ UNCHANGED mainVars
    /\ UNCHANGED testVars

(***************************************************************************)
(* The programs the children exec.  A program may end whenever it likes;   *)
(* the only thing it is known to do is end once a read of its standard     *)
(* input meets end-of-file or a write to its standard output fails.        *)
(***************************************************************************)
\* some process still holds end e of pipe k open
HeldBySomeone(k, e) ==
    \/ Holds(pfd, k, e)
    \/ \E j \in Stages : Alive(j) /\ Holds(cfd[j], k, e)

\* a read of stage i's standard input meets end-of-file (or fails): the input is
\* no pipe (a terminal or a file, which end), or a pipe nobody can write to
StdinAtEOF(i) ==
    LET f == cfd[i][STDIN_FILENO]
    IN  f.kind = "pipe" => (f.end # "r" \/ ~HeldBySomeone(f.id, "w"))

\* a write to stage i's standard output fails: a pipe nobody can read from
StdoutBroken(i) ==
    LET f == cfd[i][STDOUT_FILENO]
    IN  f.kind = "pipe" /\ (f.end # "w" \/ ~HeldBySomeone(f.id, "r"))

\* the program ends of its own accord
ProgramEnds(i) ==
    /\ cpc[i] = "running"
    /\ \E st \in ProgramStatuses : ChildEnds(i, st)
    /\ UNCHANGED <<cargv, ccwd>>
    /\ UNCHANGED shellVars
    /\ UNCHANGED parseVars
    /\ UNCHANGED mainVars
    /\ UNCHANGED testVars

\* the program ends because its input ended or its output broke
ProgramSeesEOF(i) ==
    /\ cpc[i] = "running"
    /\ StdinAtEOF(i) \/ StdoutBroken(i)
    /\ \E st \in ProgramStatuses : ChildEnds(i, st)
    /\ UNCHANGED <<cargv, ccwd>>
    /\ UNCHANGED shellVars
    /\ UNCHANGED parseVars
    /\ UNCHANGED mainVars
    /\ UNCHANGED testVars

\* the steps of the code the child runs between fork and exec
ChildStep(i) ==
    \/ ChildCloseFds(i)
    \/ ChildRedirect(i)
    \/ ChildWire(i)
    \/ ChildExec(i)
    \/ ChildExecFails(i)

\* the steps of the shell process
ShellStep ==
    \/ CreatePipe
    \/ CreatePipeFails
    \/ StageExit
    \/ StageCd
    \/ StageFork
    \/ StageForkFails
    \/ ParentClose
    \/ WaitReaps
    \/ WaitNoChild
    \/ ExecReturn

(***************************************************************************)
(* TOK_tokenize_input (src/unnamed/part_001:50-118).  A line is the        *)
(* sequence of its characters, the terminating NUL left out.  The other    *)
(* copy of tokenize.c, src/unnamed/part_002, differs in the text of the    *)
(* illegal escape message only ("Illegal escape character '?%c'").         *)
(***************************************************************************)
\* the NUL character
NUL == ""

\* the character a pointer to position n (1-based) of the line points to
CharAt(inp, n) == IF n \in 1..Len(inp) THEN inp[n] ELSE NUL

isescape(ch) == ch \in {"n", "r", "t", " ", "\"", ">", "<", "|", "\\"}

isspace(ch) == ch \in {" ", "\t", "\n", "\r"}

\* the C string made of the characters cs
RECURSIVE Str(_)
Str(cs) == IF cs = <<>> THEN "" ELSE Head(cs) \o Str(Tail(cs))

\* strndup(start, len): at most len characters, none behind the end of the line
strndup(inp, start, len) ==
    LET last == IF start + len - 1 > Len(inp) THEN Len(inp) ELSE start + len - 1
    IN  Str(SubSeq(inp, start, last))

\* TOK_nnew with one character too few copied
TOK_nnew_OneShort(tt, inp, start, len) == Token(tt, strndup(inp, start, len - 1))

\* TOK_nnew(tt, start, len) for a WORD or QUOTED_WORD
TOK_nnew(tt, inp, start, len) == Token(tt, strndup(inp, start, len))

\* snprintf(errmsg, errmsg_sz, "Illegal escape character %c", ch): a NUL
\* written for %c ends the message
IllegalEscape(ch) == "Illegal escape character " \o ch

\* what TOK_tokenize_input returns: the list, or NULL with a message
TokenList(toks) == [null |-> FALSE, tokens |-> toks, errmsg |-> ""]
NoTokenList(msg) == [null |-> TRUE, tokens |-> <<>>, errmsg |-> msg]

\* src/unnamed/part_001:66-73: the scan of a quoted word from position n; where
\* it stops, and whether on an illegal escape
RECURSIVE QuoteScan(_, _)
QuoteScan(inp, n) ==
    IF CharAt(inp, n) = NUL \/ CharAt(inp, n) = "\"" THEN [pos |-> n, illegal |-> FALSE]
    ELSE IF CharAt(inp, n) = "\\" /\ ~isescape(CharAt(inp, n + 1))
         THEN [pos |-> n + 1, illegal |-> TRUE]
         ELSE QuoteScan(inp, n + 1)

\* src/unnamed/part_001:57-115: the loop from position n on, with the word in
\* progress starting at `start` (0 for NULL) and the tokens toks appended
RECURSIVE TokenizeFrom(_, _, _, _)
TokenizeFrom(inp, n, start, toks) ==
    LET ch == CharAt(inp, n)
        ended == IF start # 0
                 THEN Append(toks, TOK_nnew(TOK_WORD, inp, start, n - start))
                 ELSE toks
    IN  IF ch = NUL THEN TokenList(toks)
        ELSE IF ch = "\""
        THEN LET q == QuoteScan(inp, n + 1)
             IN  IF q.illegal THEN NoTokenList(IllegalEscape(CharAt(inp, q.pos)))
                 ELSE IF CharAt(inp, q.pos) = NUL THEN NoTokenList("Unterminated quote")
                 ELSE TokenizeFrom(inp, q.pos + 1, 0,
                          Append(ended, TOK_nnew(TOK_QUOTED_WORD, inp, n, q.pos - n + 1)))
        ELSE IF ch \in {"<", ">", "|"} \/ isspace(ch)
        THEN TokenizeFrom(inp, n + 1, 0,
                 IF ch = "<" THEN Append(ended, Token(TOK_LESSTHAN, NullStr))
                 ELSE IF ch = ">" THEN Append(ended, Token(TOK_GREATERTHAN, NullStr))
                 ELSE IF ch = "|" THEN Append(ended, Token(TOK_PIPE, NullStr))
                 ELSE ended)
        ELSE LET start1 == IF start = 0 THEN n ELSE start
                 n1 == IF ch = "\\" THEN n + 1 ELSE n
                 n2 == IF CharAt(inp, n1) # NUL THEN n1 + 1 ELSE n1
             IN  IF ch = "\\" /\ ~isescape(CharAt(inp, n1))
                 THEN NoTokenList(IllegalEscape(CharAt(inp, n1)))
                 ELSE IF CharAt(inp, n2) = NUL
                 THEN TokenList(Append(toks, TOK_nnew(TOK_WORD, inp, start1, n2 - start1 + 1)))
                 ELSE TokenizeFrom(inp, n2, start1, toks)

TOK_tokenize_input(inp) == TokenizeFrom(inp, 1, 0, <<>>)

(***************************************************************************)
(* TOK_tokenize_input run on its own, as psh_test calls it                 *)
(* (src/unnamed/part_004:56-200), one iteration of its while loop per      *)
(* step.                                                                   *)
(***************************************************************************)
\* longest line handed to the tokenizer
MaxLineLen == 5

\* the characters of the lines: `a` stands for every character that is no
\* delimiter, no quote, no backslash and no legal escape
LineAlphabet == {"a", " ", "\"", "\\", "<", ">", "|"}

TokLines == UNION {[1..n -> LineAlphabet] : n \in 0..MaxLineLen}

\* CL_free that releases the list but none of its elements
CL_free_ListOnly(toks) == 0

\* CL_free(tokens): the number of elements it releases
CL_free(toks) == Len(toks)

\* EndWord with the pending word forgotten
EndWord_Forgets(toks, inp, start, n) == toks

\* `if (start) CL_append(tokens, TOK_nnew(TOK_WORD, start, input - start))`
EndWord(toks, inp, start, n) ==
    IF start # 0 THEN Append(toks, TOK_nnew(TOK_WORD, inp, start, n - start)) ELSE toks

\* the token appended for the delimiter ch, if any
Delimiter(toks, ch) ==
    IF ch = "<" THEN Append(toks, Token(TOK_LESSTHAN, NullStr))
    ELSE IF ch = ">" THEN Append(toks, Token(TOK_GREATERTHAN, NullStr))
    ELSE IF ch = "|" THEN Append(toks, Token(TOK_PIPE, NullStr))
    ELSE toks

\* the error return: the message, CL_free(tokens), return NULL
TokFail(msg, built) ==
    /\ tok_errmsg' = msg
    /\ tok_freed' = CL_free(built)
    /\ tok_tokens' = <<>>
    /\ tok_null' = TRUE
    /\ tok_pc' = "returned"
    /\ UNCHANGED <<tok_line, tok_input, tok_start>>

\* the state on entry to the loop of TOK_tokenize_input; nothing else runs
TokenizeInit ==
    /\ tok_pc = "loop"
    /\ tok_line \in TokLines
    /\ tok_input = 1
    /\ tok_start = 0
    /\ tok_tokens = <<>>
    /\ tok_errmsg = ""
    /\ tok_null = FALSE
    /\ tok_freed = 0
    /\ str_pc = "idle"
    /\ str_pipeline = NULL
    /\ buf = <<>>
    /\ buf_sz = 0
    /\ size = 0
    /\ outside = {}
    /\ passes = <<>>
    /\ tokens = <<>>
    /\ stream = <<>>
    /\ allocated = 0
    /\ freed = 0
    /\ ret = NULL
    /\ errmsg = ""
    /\ redirect_in = 0
    /\ redirect_out = 0
    /\ parse_pc = "idle"
    /\ parse_result = NULL
    /\ pipeline = NULL
    /\ argvs = <<>>
    /\ num_pipes = 0
    /\ fds = <<>>
    /\ ppc = "idle"
    /\ idx = 0
    /\ pfd = <<>>
    /\ exit_val = 0
    /\ cwd = ""
    /\ shell_status = -1
    /\ reaped = <<>>
    /\ cpc = <<>>
    /\ cfd = <<>>
    /\ cargv = <<>>
    /\ ccwd = <<>>
    /\ cstatus = <<>>
    /\ main_pc = "idle"
    /\ input = <<>>
    /\ time_to_quit = FALSE
    /\ printed = <<>>

\* src/unnamed/part_001:59-73: a quote, and an illegal escape behind it
TokQuoteIllegalEscape ==
    /\ tok_pc = "loop"
    /\ CharAt(tok_line, tok_input) = "\""
    /\ LET q == QuoteScan(tok_line, tok_input + 1)
       IN  /\ q.illegal
           /\ TokFail(IllegalEscape(CharAt(tok_line, q.pos)),
                      EndWord(tok_tokens, tok_line, tok_start, tok_input))
    /\ UNCHANGED <<parseVars, execVars, mainVars, strVars, passes>>

\* src/unnamed/part_001:59-79: a quote, and the end of the line behind it
TokQuoteUnterminated ==
    /\ tok_pc = "loop"
    /\ CharAt(tok_line, tok_input) = "\""
    /\ LET q == QuoteScan(tok_line, tok_input + 1)
       IN  /\ ~q.illegal
           /\ CharAt(tok_line, q.pos) = NUL
           /\ TokFail("Unterminated quote",
                      EndWord(tok_tokens, tok_line, tok_start, tok_input))
    /\ UNCHANGED <<parseVars, execVars, mainVars, strVars, passes>>

\* src/unnamed/part_001:59-82, 107: a quote, and the quote that ends the scan
TokQuotedWord ==
    /\ tok_pc = "loop"
    /\ CharAt(tok_line, tok_input) = "\""
    /\ LET q == QuoteScan(tok_line, tok_input + 1)
       IN  /\ ~q.illegal
           /\ CharAt(tok_line, q.pos) = "\""
           /\ tok_tokens' =
                  Append(EndWord(tok_tokens, tok_line, tok_start, tok_input),
                         TOK_nnew(TOK_QUOTED_WORD, tok_line, tok_input,
                                  q.pos - tok_input + 1))
           /\ tok_input' = q.pos + 1
    /\ tok_start' = 0
    /\ UNCHANGED <<tok_pc, tok_line, tok_errmsg, tok_null, tok_freed>>
    /\ UNCHANGED <<parseVars, execVars, mainVars, strVars, passes>>

\* src/unnamed/part_001:84-95, 107: <, >, | or white space
TokDelimiter ==
    /\ tok_pc = "loop"
    /\ LET ch == CharAt(tok_line, tok_input)
       IN  /\ ch \in {"<", ">", "|"} \/ isspace(ch)
           /\ tok_tokens' =
                  Delimiter(EndWord(tok_tokens, tok_line, tok_start, tok_input), ch)
    /\ tok_start' = 0
    /\ tok_input' = tok_input + 1
    /\ UNCHANGED <<tok_pc, tok_line, tok_errmsg, tok_null, tok_freed>>
    /\ UNCHANGED <<parseVars, execVars, mainVars, strVars, passes>>

\* src/unnamed/part_001:97-104: a backslash of a word, and an illegal escape
TokWordIllegalEscape ==
    /\ tok_pc = "loop"
    /\ CharAt(tok_line, tok_input) = "\\"
    /\ ~isescape(CharAt(tok_line, tok_input + 1))
    /\ TokFail(IllegalEscape(CharAt(tok_line, tok_input + 1)), tok_tokens)
    /\ UNCHANGED <<parseVars, execVars, mainVars, strVars, passes>>

\* src/unnamed/part_001:97-114: a character of a word, or its escape pair; the
\* word is appended when the line ends behind it
TokWordChar ==
    /\ tok_pc = "loop"
    /\ LET ch == CharAt(tok_line, tok_input)
           start1 == IF tok_start = 0 THEN tok_input ELSE tok_start
           n1 == IF ch = "\\" THEN tok_input + 1 ELSE tok_input
           n2 == IF CharAt(tok_line, n1) # NUL THEN n1 + 1 ELSE n1
       IN  /\ ch # NUL
           /\ ch \notin {"\"", "<", ">", "|"}
           /\ ~isspace(ch)
           /\ ch = "\\" => isescape(CharAt(tok_line, n1))
           /\ tok_input' = n2
           /\ IF CharAt(tok_line, n2) = NUL
              THEN /\ tok_tokens' = Append(tok_tokens,
                          TOK_nnew(TOK_WORD, tok_line, start1, n2 - start1 + 1))
                   /\ tok_start' = 0
              ELSE /\ tok_tokens' = tok_tokens
                   /\ tok_start' = start1
    /\ UNCHANGED <<tok_pc, tok_line, tok_errmsg, tok_null, tok_freed>>
    /\ UNCHANGED <<parseVars, execVars, mainVars, strVars, passes>>

\* src/unnamed/part_001:57, 117: the end of the line: return tokens
TokReturn ==
    /\ tok_pc = "loop"
    /\ CharAt(tok_line, tok_input) = NUL
    /\ tok_pc' = "returned"
    /\ UNCHANGED <<tok_line, tok_input, tok_start, tok_tokens, tok_errmsg, tok_null,
                   tok_freed>>
    /\ UNCHANGED <<parseVars, execVars, mainVars, strVars, passes>>

(***************************************************************************)
(* AST_pipeline2str (src/pipeline.c:1131-1170) for a rendering that fits   *)
(* the buffer and whose last word does not end in a blank: the items       *)
(* AST_sprint writes, one blank between two of them.                       *)
(***************************************************************************)
ASTNodeType_to_char(type) ==
    IF type = WORD THEN "w"
    ELSE IF type = QUOTED_WORD THEN "W"
    ELSE IF type = OP_LESSTHAN THEN "<"
    ELSE IF type = OP_GREATERTHAN THEN ">"
    ELSE "|"

RECURSIVE AST_sprint(_)
AST_sprint(p) ==
    IF IsNull(p) THEN <<>>
    ELSE IF p.type = OP_PIPE
    THEN AST_sprint(p.left) \o <<"|">> \o AST_sprint(p.right)
    ELSE <<IF isword(p.type) THEN p.value ELSE ASTNodeType_to_char(p.type)>>
         \o AST_sprint(p.right)

RECURSIVE JoinItems(_)
JoinItems(items) ==
    IF items = <<>> THEN ""
    ELSE IF Len(items) = 1 THEN items[1]
    ELSE items[1] \o " " \o JoinItems(Tail(items))

AST_pipeline2str(p) == JoinItems(AST_sprint(p))

(***************************************************************************)
(* AST_pipeline2str (src/pipeline.c:1131-1170) byte by byte, for a buffer  *)
(* of any size, as psh_test calls it (src/unnamed/part_004:211-269).       *)
(***************************************************************************)
\* largest buffer handed to AST_pipeline2str on its own
MaxBufSz == 10

\* most bytes in front of the buffer that may happen to hold a blank
MaxUnderrun == 2

\* a byte of the buffer nothing was written to
Uninit == "?"

\* the characters of the words the pipelines are made of
FixedSpellings ==
    { <<"l", "s">>, <<"c", "d">>, <<"e", "x", "i", "t">>, <<"q", "u", "i", "t">>,
      <<"d">>, <<"f">>, <<"a">>, <<"b">> }

\* the substrings of the line the tokenizer was given
SubSeqs(line) == {SubSeq(line, a, b) : a \in 1..Len(line), b \in 1..Len(line)}

\* the characters of the C string value
Chars(value) == CHOOSE cs \in FixedSpellings \cup SubSeqs(tok_line) : Str(cs) = value

\* src/pipeline.c:1119: min
min(a, b) == IF a < b THEN a ELSE b

\* snprintf(b + at, n, ...) printing text: the buffer afterwards.  At most
\* n - 1 characters are stored, then a NUL; nothing when n is 0.
snprintf(b, at, n, text) ==
    LET k == min(Len(text), n - 1)
    IN  IF n = 0 THEN b
        ELSE [i \in DOMAIN b |->
                 IF at <= i /\ i < at + k THEN text[i - at + 1]
                 ELSE IF i = at + k THEN NUL
                 ELSE b[i]]

\* size += min(buf_sz - size, snprintf(buf + size, buf_sz - size, ...))
Put(st, cap, text) ==
    [buf |-> snprintf(st.buf, st.size, cap - st.size, text),
     size |-> st.size + min(cap - st.size, Len(text))]

\* NodeText with the format "%s" for "%s "
NodeText_NoBlank(p) ==
    IF isword(p.type) THEN Chars(p.value) ELSE <<ASTNodeType_to_char(p.type)>>

\* what AST_sprint prints for a node that is no pipe: "%s " or "%c "
NodeText(p) ==
    (IF isword(p.type) THEN Chars(p.value) ELSE <<ASTNodeType_to_char(p.type)>>) \o <<" ">>

\* src/pipeline.c:1132-1152: AST_sprint(pipeline, buf, buf_sz) from the state
\* st of buf and size
RECURSIVE AST_sprint_buf(_, _, _)
AST_sprint_buf(p, st, cap) ==
    IF IsNull(p) \/ st.size >= cap THEN st
    ELSE IF p.type = OP_PIPE
    THEN AST_sprint_buf(p.right, Put(AST_sprint_buf(p.left, st, cap), cap, <<"|", " ">>), cap)
    ELSE AST_sprint_buf(p.right, Put(st, cap, NodeText(p)), cap)

\* the buffer holds a NUL
Terminated == \E i \in DOMAIN buf : buf[i] = NUL

\* the index of the first NUL of a terminated buffer: the length of its string
strlen == CHOOSE i \in DOMAIN buf : buf[i] = NUL /\ \A j \in 0..(i - 1) : buf[j] # NUL

\* the string a terminated buffer holds, as its characters
BufChars == [k \in 1..strlen |-> buf[k - 1]]

\* the pipelines printed: the empty one and those AST_execute is run on
RenderPipelines == {NULL} \cup ExecPipelines

\* the state on entry to AST_pipeline2str; nothing else runs
RenderInit ==
    /\ str_pc = "call"
    /\ str_pipeline \in RenderPipelines
    /\ buf_sz \in 0..MaxBufSz
    /\ buf = [i \in 0..(buf_sz - 1) |-> Uninit]
    /\ size = 0
    /\ outside = {}
    /\ passes = <<>>
    /\ tok_pc = "idle"
    /\ tok_line = <<>>
    /\ tok_input = 1
    /\ tok_start = 0
    /\ tok_tokens = <<>>
    /\ tok_errmsg = ""
    /\ tok_null = FALSE
    /\ tok_freed = 0
    /\ tokens = <<>>
    /\ stream = <<>>
    /\ allocated = 0
    /\ freed = 0
    /\ ret = NULL
    /\ errmsg = ""
    /\ redirect_in = 0
    /\ redirect_out = 0
    /\ parse_pc = "idle"
    /\ parse_result = NULL
    /\ pipeline = NULL
    /\ argvs = <<>>
    /\ num_pipes = 0
    /\ fds = <<>>
    /\ ppc = "idle"
    /\ idx = 0
    /\ pfd = <<>>
    /\ exit_val = 0
    /\ cwd = ""
    /\ shell_status = -1
    /\ reaped = <<>>
    /\ cpc = <<>>
    /\ cfd = <<>>
    /\ cargv = <<>>
    /\ ccwd = <<>>
    /\ cstatus = <<>>
    /\ main_pc = "idle"
    /\ input = <<>>
    /\ time_to_quit = FALSE
    /\ printed = <<>>

\* src/pipeline.c:1158-1159: size = 0; AST_sprint(pipeline, buf, buf_sz)
StrSprint ==
    /\ str_pc = "call"
    /\ LET st == AST_sprint_buf(str_pipeline, [buf |-> buf, size |-> 0], buf_sz)
       IN  /\ buf' = st.buf
           /\ size' = st.size
    /\ str_pc' = "trim"
    /\ UNCHANGED <<str_pipeline, buf_sz, outside, passes>>
    /\ UNCHANGED <<parseVars, execVars, mainVars, tokVars>>

\* src/pipeline.c:1160: buf[size-1] is a blank: --size
StrTrimBlank ==
    /\ str_pc = "trim"
    /\ size >= 1
    /\ buf[size - 1] = " "
    /\ size' = size - 1
    /\ UNCHANGED <<str_pc, str_pipeline, buf, buf_sz, outside, passes>>
    /\ UNCHANGED <<parseVars, execVars, mainVars, tokVars>>

\* src/pipeline.c:1160: buf[size-1] is no blank: the loop ends
StrTrimStops ==
    /\ str_pc = "trim"
    /\ size >= 1
    /\ buf[size - 1] # " "
    /\ str_pc' = "terminate"
    /\ UNCHANGED <<str_pipeline, buf, buf_sz, size, outside, passes>>
    /\ UNCHANGED <<parseVars, execVars, mainVars, tokVars>>

\* src/pipeline.c:1160 with size 0 or wrapped: buf[size-1] is a byte in front of
\* the buffer.  The sanitizer the Makefile builds with stops the program, or
\* the byte is read: a blank, or not.
StrTrimOutside ==
    /\ str_pc = "trim"
    /\ size <= 0
    /\ outside' = outside \cup {size - 1}
    /\ \E outcome \in {"abort", "blank", "other"} :
         /\ outcome = "blank" => size > -MaxUnderrun
         /\ str_pc' = IF outcome = "abort" THEN "aborted"
                      ELSE IF outcome = "blank" THEN "trim" ELSE "terminate"
         /\ size' = IF outcome = "blank" THEN size - 1 ELSE size
    /\ UNCHANGED <<str_pipeline, buf, buf_sz, passes>>
    /\ UNCHANGED <<parseVars, execVars, mainVars, tokVars>>

\* src/pipeline.c:1163: size < buf_sz: buf[size] = 0
StrTerminateFits ==
    /\ str_pc = "terminate"
    /\ 0 <= size /\ size < buf_sz
    /\ buf' = [buf EXCEPT ![size] = NUL]
    /\ str_pc' = "returned"
    /\ UNCHANGED <<str_pipeline, buf_sz, size, outside, passes>>
    /\ UNCHANGED <<parseVars, execVars, mainVars, tokVars>>

\* src/pipeline.c:1164-1167: the buffer is full: buf[--size] = 0 and
\* buf[size-1] = '$', both inside the buffer
StrTerminateTruncates ==
    /\ str_pc = "terminate"
    /\ ~(0 <= size /\ size < buf_sz)
    /\ {size - 1, size - 2} \subseteq DOMAIN buf
    /\ buf' = [buf EXCEPT ![size - 1] = NUL, ![size - 2] = "$"]
    /\ size' = size - 1
    /\ str_pc' = "returned"
    /\ UNCHANGED <<str_pipeline, buf_sz, outside, passes>>
    /\ UNCHANGED <<parseVars, execVars, mainVars, tokVars>>

\* src/pipeline.c:1164-1167 when buf + size - 1 or buf + size - 2 is not a
\* byte of the buffer: the sanitizer stops the program, or the bytes are
\* written where they fall
StrTerminateOutside ==
    /\ str_pc = "terminate"
    /\ ~(0 <= size /\ size < buf_sz)
    /\ ~({size - 1, size - 2} \subseteq DOMAIN buf)
    /\ outside' = outside \cup ({size - 1, size - 2} \ DOMAIN buf)
    /\ \E outcome \in {"abort", "written"} :
         /\ str_pc' = IF outcome = "abort" THEN "aborted" ELSE "returned"
         /\ size' = IF outcome = "abort" THEN size ELSE size - 1
         /\ buf' = IF outcome = "abort" THEN buf
                   ELSE [i \in DOMAIN buf |->
                            IF i = size - 1 THEN NUL
                            ELSE IF i = size - 2 THEN "$" ELSE buf[i]]
    /\ UNCHANGED <<str_pipeline, buf_sz, passes>>
    /\ UNCHANGED <<parseVars, execVars, mainVars, tokVars>>

(***************************************************************************)
(* A line taken through TOK_tokenize_input, Parse and AST_pipeline2str,    *)
(* and the string printed taken through them once more: the calls of main  *)
(* (src/unnamed/part_000:41-61) and of psh_test (src/unnamed/part_004).    *)
(***************************************************************************)
\* src/unnamed/part_000:20: size_t buffer_sz = 128
buffer_sz == 128

\* what is kept of a pass: the line, its tokens, its pipeline, the string printed
Pass == [line |-> tok_line, tokens |-> stream, pipeline |-> str_pipeline, str |-> BufChars]

\* src/unnamed/part_000:48-54: the token list is not empty: Parse is called
TestCallsParse ==
    /\ tok_pc = "returned"
    /\ ~tok_null
    /\ Len(tok_tokens) > 0
    /\ parse_pc = "idle"
    /\ tokens' = tok_tokens
    /\ stream' = tok_tokens
    /\ allocated' = 0
    /\ freed' = 0
    /\ ret' = NULL
    /\ errmsg' = ""
    /\ redirect_in' = 0
    /\ redirect_out' = 0
    /\ parse_pc' = "loop"
    /\ parse_result' = NULL
    /\ UNCHANGED <<execVars, mainVars, testVars>>

\* src/unnamed/part_000:56-61: Parse returned a pipeline: it is printed
TestCallsPipeline2str ==
    /\ parse_pc = "returned"
    /\ ~IsNull(parse_result)
    /\ tok_pc = "returned"
    /\ str_pc = "idle"
    /\ str_pc' = "call"
    /\ str_pipeline' = parse_result
    /\ buf_sz' = buffer_sz
    /\ buf' = [i \in 0..(buffer_sz - 1) |-> Uninit]
    /\ size' = 0
    /\ outside' = {}
    /\ UNCHANGED <<parseVars, execVars, mainVars, tokVars, passes>>

\* the string printed for the line is tokenized in its turn
TestTokenizesString ==
    /\ str_pc = "returned"
    /\ Len(passes) = 0
    /\ passes' = <<Pass>>
    /\ tok_pc' = "loop"
    /\ tok_line' = BufChars
    /\ tok_input' = 1
    /\ tok_start' = 0
    /\ tok_tokens' = <<>>
    /\ tok_errmsg' = ""
    /\ tok_null' = FALSE
    /\ tok_freed' = 0
    /\ tokens' = <<>>
    /\ stream' = <<>>
    /\ allocated' = 0
    /\ freed' = 0
    /\ ret' = NULL
    /\ errmsg' = ""
    /\ redirect_in' = 0
    /\ redirect_out' = 0
    /\ parse_pc' = "idle"
    /\ parse_result' = NULL
    /\ str_pc' = "idle"
    /\ str_pipeline' = NULL
    /\ buf' = <<>>
    /\ buf_sz' = 0
    /\ size' = 0
    /\ outside' = {}
    /\ UNCHANGED <<execVars, mainVars>>

\* the string printed for the string is there to be compared with it
TestComparesStrings ==
    /\ str_pc = "returned"
    /\ Len(passes) = 1
    /\ passes' = Append(passes, Pass)
    /\ str_pc' = "idle"
    /\ tok_pc' = "idle"
    /\ parse_pc' = "idle"
    /\ UNCHANGED <<tokens, ret, errmsg, redirect_in, redirect_out, parse_result, stream,
                   allocated, freed>>
    /\ UNCHANGED <<tok_line, tok_input, tok_start, tok_tokens, tok_errmsg, tok_null,
                   tok_freed>>
    /\ UNCHANGED <<str_pipeline, buf, buf_sz, size, outside>>
    /\ UNCHANGED <<execVars, mainVars>>

(***************************************************************************)
(* main (src/unnamed/part_000:17-75): the read loop of plaidsh.  buffer,   *)
(* which main hands to the tokenizer and to Parse for their message, is    *)
(* the variable errmsg.                                                    *)
(***************************************************************************)
\* most pieces of an input line
MaxPieces == 3

\* the lines typed: up to MaxPieces pieces, written one after the other
LinePieces ==
    { <<"l", "s">>, <<"c", "d">>, <<"e", "x", "i", "t">>, <<" ">>, <<"|">>,
      <<"<">>, <<">">>, <<"\"">>, <<"\\", "n">>, <<"\\", "x">> }

RECURSIVE Flatten(_)
Flatten(pieces) ==
    IF pieces = <<>> THEN <<>> ELSE Head(pieces) \o Flatten(Tail(pieces))

Lines == {Flatten(ps) : ps \in UNION {[1..n -> LinePieces] : n \in 0..MaxPieces}}

\* readline() returned NULL: end of input
NullLine == <<NullStr>>

\* the lines with strcasecmp(input, "quit") == 0
QuitLines ==
    {<<q, u, i, t>> : q \in {"q", "Q"}, u \in {"u", "U"}, i \in {"i", "I"}, t \in {"t", "T"}}

\* the lines that get as far as line 41, each with what TOK_tokenize_input
\* returns for it
TokenizedLines == Lines \ ({<<>>} \cup QuitLines)

Tokenized == [inp \in TokenizedLines |-> TOK_tokenize_input(inp)]

\* src/unnamed/part_000:31-34: end of input or the line quit
MainReadsQuit ==
    /\ UNCHANGED testVars
    /\ main_pc = "read"
    /\ \E inp \in {NullLine, <<"q", "u", "i", "t">>, <<"Q", "u", "i", "t">>} :
         input' = inp
    /\ time_to_quit' = TRUE
    /\ main_pc' = "loop_end"
    /\ printed' = <<>>
    /\ UNCHANGED parseVars
    /\ UNCHANGED execVars

\* src/unnamed/part_000:36-37: the empty line
MainReadsEmptyLine ==
    /\ UNCHANGED testVars
    /\ main_pc = "read"
    /\ input' = <<>>
    /\ main_pc' = "loop_end"
    /\ printed' = <<>>
    /\ UNCHANGED time_to_quit
    /\ UNCHANGED parseVars
    /\ UNCHANGED execVars

\* src/unnamed/part_000:41-46: TOK_tokenize_input returns NULL, its message is
\* printed
MainTokenizeFails ==
    /\ UNCHANGED testVars
    /\ main_pc = "read"
    /\ \E inp \in TokenizedLines :
         LET r == Tokenized[inp]
         IN  /\ r.null
             /\ input' = inp
             /\ errmsg' = r.errmsg
             /\ printed' = <<r.errmsg>>
    /\ main_pc' = "loop_end"
    /\ UNCHANGED time_to_quit
    /\ UNCHANGED <<tokens, ret, redirect_in, redirect_out, parse_pc, parse_result,
                   stream, allocated, freed>>
    /\ UNCHANGED execVars

\* src/unnamed/part_000:41-49: the line holds no token
MainTokenizesNothing ==
    /\ UNCHANGED testVars
    /\ main_pc = "read"
    /\ \E inp \in TokenizedLines :
         LET r == Tokenized[inp]
         IN  /\ ~r.null
             /\ r.tokens = <<>>
             /\ input' = inp
             /\ errmsg' = r.errmsg
    /\ main_pc' = "loop_end"
    /\ printed' = <<>>
    /\ UNCHANGED time_to_quit
    /\ UNCHANGED <<tokens, ret, redirect_in, redirect_out, parse_pc, parse_result,
                   stream, allocated, freed>>
    /\ UNCHANGED execVars

\* src/unnamed/part_000:41-54, src/parse.c:51-54: the line has tokens, Parse is
\* called on them and is at the top of its loop
MainCallsParse ==
    /\ UNCHANGED testVars
    /\ main_pc = "read"
    /\ \E inp \in TokenizedLines :
         LET r == Tokenized[inp]
         IN  /\ ~r.null
             /\ r.tokens # <<>>
             /\ input' = inp
             /\ tokens' = r.tokens
             /\ stream' = r.tokens
    /\ errmsg' = ""
    /\ redirect_in' = 0
    /\ redirect_out' = 0
    /\ ret' = NULL
    /\ parse_result' = NULL
    /\ allocated' = 0
    /\ freed' = 0
    /\ parse_pc' = "loop"
    /\ main_pc' = "parse"
    /\ printed' = <<>>
    /\ UNCHANGED time_to_quit
    /\ UNCHANGED execVars

\* src/unnamed/part_000:56: pipeline == NULL
ParseFailed_Never == FALSE

ParseFailed == IsNull(parse_result)

\* src/unnamed/part_000:54-59: Parse returned NULL, its message is printed
MainParseFails ==
    /\ UNCHANGED testVars
    /\ main_pc = "parse"
    /\ parse_pc = "returned"
    /\ ParseFailed
    /\ printed' = Append(printed, errmsg)
    /\ main_pc' = "loop_end"
    /\ UNCHANGED <<input, time_to_quit>>
    /\ UNCHANGED parseVars
    /\ UNCHANGED execVars

\* src/unnamed/part_000:61-63, src/pipeline.c:954-963: the pipeline is rendered
\* into buffer and AST_execute is called on it
MainCallsExecute ==
    /\ UNCHANGED testVars
    /\ main_pc = "parse"
    /\ parse_pc = "returned"
    /\ ~ParseFailed
    /\ errmsg' = AST_pipeline2str(parse_result)
    /\ pipeline' = parse_result
    /\ argvs' = setargs(parse_result)
    /\ num_pipes' = AST_countpipes(parse_result)
    /\ fds' = [k \in 0..(AST_countpipes(parse_result) - 1) |-> <<-1, -1>>]
    /\ ppc' = IF AST_countpipes(parse_result) > 0 THEN "pipe" ELSE "stage"
    /\ idx' = 0
    /\ exit_val' = 0
    /\ reaped' = <<>>
    /\ cpc' = [i \in 0..AST_countpipes(parse_result) |-> "none"]
    /\ cfd' = [i \in 0..AST_countpipes(parse_result) |-> AllClosed]
    /\ cargv' = [i \in 0..AST_countpipes(parse_result) |-> <<>>]
    /\ ccwd' = [i \in 0..AST_countpipes(parse_result) |-> ""]
    /\ cstatus' = [i \in 0..AST_countpipes(parse_result) |-> -1]
    /\ main_pc' = "execute"
    /\ UNCHANGED <<pfd, cwd, shell_status>>
    /\ UNCHANGED <<input, time_to_quit, printed>>
    /\ UNCHANGED <<tokens, ret, redirect_in, redirect_out, parse_pc, parse_result,
                   stream, allocated, freed>>

\* src/unnamed/part_000:65-72,28: loop_end, reached by a goto or when
\* AST_execute returned: the line, the tokens and the pipeline are freed, and
\* the loop goes on unless time_to_quit.  The locals of the calls that returned
\* are gone.
MainLoopEnd ==
    /\ UNCHANGED testVars
    /\ \/ main_pc = "loop_end"
       \/ main_pc = "execute" /\ ppc = "returned"
    /\ main_pc' = IF time_to_quit THEN "returned" ELSE "read"
    /\ input' = <<>>
    /\ tokens' = <<>>
    /\ stream' = <<>>
    /\ ret' = NULL
    /\ parse_result' = NULL
    /\ parse_pc' = "idle"
    /\ redirect_in' = 0
    /\ redirect_out' = 0
    /\ allocated' = 0
    /\ freed' = 0
    /\ pipeline' = NULL
    /\ argvs' = <<>>
    /\ num_pipes' = 0
    /\ fds' = <<>>
    /\ ppc' = "idle"
    /\ idx' = 0
    /\ exit_val' = 0
    /\ reaped' = <<>>
    /\ cpc' = <<>>
    /\ cfd' = <<>>
    /\ cargv' = <<>>
    /\ ccwd' = <<>>
    /\ cstatus' = <<>>
    /\ UNCHANGED <<errmsg, pfd, cwd, shell_status, time_to_quit, printed>>

\* the state when main reaches its loop for the first time
ShellInit ==
    /\ main_pc = "read"
    /\ input = <<>>
    /\ time_to_quit = FALSE
    /\ printed = <<>>
    /\ tok_pc = "idle"
    /\ tok_line = <<>>
    /\ tok_input = 1
    /\ tok_start = 0
    /\ tok_tokens = <<>>
    /\ tok_errmsg = ""
    /\ tok_null = FALSE
    /\ tok_freed = 0
    /\ str_pc = "idle"
    /\ str_pipeline = NULL
    /\ buf = <<>>
    /\ buf_sz = 0
    /\ size = 0
    /\ outside = {}
    /\ passes = <<>>
    /\ tokens = <<>>
    /\ stream = <<>>
    /\ allocated = 0
    /\ freed = 0
    /\ ret = NULL
    /\ errmsg = ""
    /\ redirect_in = 0
    /\ redirect_out = 0
    /\ parse_pc = "idle"
    /\ parse_result = NULL
    /\ pipeline = NULL
    /\ argvs = <<>>
    /\ num_pipes = 0
    /\ fds = <<>>
    /\ ppc = "idle"
    /\ idx = 0
    /\ pfd = ShellTable
    /\ exit_val = 0
    /\ cwd = StartDir
    /\ shell_status = -1
    /\ reaped = <<>>
    /\ cpc = <<>>
    /\ cfd = <<>>
    /\ cargv = <<>>
    /\ ccwd = <<>>
    /\ cstatus = <<>>

(***************************************************************************)
(* The specifications.                                                     *)
(***************************************************************************)
ParseNext ==
    \/ ParseQuotedWord
    \/ ParseWord
    \/ ParseRedirect
    \/ ParsePipe
    \/ ParseReturn

SpecParse == ParseInit /\ [][ParseNext]_vars

ExecNext ==
    \/ CreatePipe
    \/ CreatePipeFails
    \/ StageExit
    \/ StageCd
    \/ StageFork
    \/ StageForkFails
    \/ ParentClose
    \/ WaitReaps
    \/ WaitNoChild
    \/ ExecReturn
    \/ \E i \in Stages : ChildCloseFds(i)
    \/ \E i \in Stages : ChildRedirect(i)
    \/ \E i \in Stages : ChildWire(i)
    \/ \E i \in Stages : ChildExec(i)
    \/ \E i \in Stages : ChildExecFails(i)
    \/ \E i \in Stages : ProgramEnds(i)
    \/ \E i \in Stages : ProgramSeesEOF(i)

SpecExec == ExecInit /\ [][ExecNext]_vars

\* AST_execute on pipelines with words that pattern expansion returned
SpecExecGlob == GlobExecInit /\ [][ExecNext]_vars

\* The kernel schedules every runnable process: the shell and each child take
\* their next step, and a program blocked on its input or output ends once the
\* end-of-file or the write failure is there (the assumption made on programs).
FairSpecExec ==
    /\ SpecExec
    /\ WF_vars(ShellStep)
    /\ \A i \in 0..(MaxStages - 1) :
         /\ WF_vars(i \in Stages /\ ChildStep(i))
         /\ WF_vars(i \in Stages /\ ProgramSeesEOF(i))

\* plaidsh: main, with Parse and AST_execute running inside it
ShellNext ==
    \/ MainReadsQuit
    \/ MainReadsEmptyLine
    \/ MainTokenizeFails
    \/ MainTokenizesNothing
    \/ MainCallsParse
    \/ MainParseFails
    \/ MainCallsExecute
    \/ MainLoopEnd
    \/ ParseQuotedWord
    \/ ParseWord
    \/ ParseRedirect
    \/ ParsePipe
    \/ ParseReturn
    \/ CreatePipe
    \/ CreatePipeFails
    \/ StageExit
    \/ StageCd
    \/ StageFork
    \/ StageForkFails
    \/ ParentClose
    \/ WaitReaps
    \/ WaitNoChild
    \/ ExecReturn
    \/ \E i \in DOMAIN cpc : ChildCloseFds(i)
    \/ \E i \in DOMAIN cpc : ChildRedirect(i)
    \/ \E i \in DOMAIN cpc : ChildWire(i)
    \/ \E i \in DOMAIN cpc : ChildExec(i)
    \/ \E i \in DOMAIN cpc : ChildExecFails(i)
    \/ \E i \in DOMAIN cpc : ProgramEnds(i)
    \/ \E i \in DOMAIN cpc : ProgramSeesEOF(i)

SpecShell == ShellInit /\ [][ShellNext]_vars

TokenizeNext ==
    \/ TokQuoteIllegalEscape
    \/ TokQuoteUnterminated
    \/ TokQuotedWord
    \/ TokDelimiter
    \/ TokWordIllegalEscape
    \/ TokWordChar
    \/ TokReturn

SpecTokenize == TokenizeInit /\ [][TokenizeNext]_vars

RenderNext ==
    \/ StrSprint
    \/ StrTrimBlank
    \/ StrTrimStops
    \/ StrTrimOutside
    \/ StrTerminateFits
    \/ StrTerminateTruncates
    \/ StrTerminateOutside

SpecRender == RenderInit /\ [][RenderNext]_vars

RoundTripNext ==
    \/ TokQuoteIllegalEscape
    \/ TokQuoteUnterminated
    \/ TokQuotedWord
    \/ TokDelimiter
    \/ TokWordIllegalEscape
    \/ TokWordChar
    \/ TokReturn
    \/ TestCallsParse
    \/ ParseQuotedWord
    \/ ParseWord
    \/ ParseRedirect
    \/ ParsePipe
    \/ ParseReturn
    \/ TestCallsPipeline2str
    \/ StrSprint
    \/ StrTrimBlank
    \/ StrTrimStops
    \/ StrTerminateFits
    \/ TestTokenizesString
    \/ TestComparesStrings

SpecRoundTrip == TokenizeInit /\ [][RoundTripNext]_vars

(***************************************************************************)
(* Properties.                                                             *)
(***************************************************************************)
\* number of nodes of type t anywhere in the tree: the right chain of every
\* node and the left subtree of every pipe
RECURSIVE CountType(_, _)
CountType(p, t) ==
    IF IsNull(p) THEN 0
    ELSE (IF p.type = t THEN 1 ELSE 0) + CountType(p.left, t) + CountType(p.right, t)

\* C1: every AST Parse returns holds at most one < node and at most one > node,
\* counted over the whole tree.
C1_AtMostOneRedirectEach ==
    parse_pc = "returned" =>
        /\ CountType(parse_result, OP_LESSTHAN) <= 1
        /\ CountType(parse_result, OP_GREATERTHAN) <= 1

\* Parse returned a pipeline of two stages, the first with a <, the second with a >
C1_Witness ==
    /\ parse_pc = "returned"
    /\ errmsg = ""
    /\ CountType(parse_result, OP_PIPE) = 1
    /\ CountType(parse_result.left, OP_LESSTHAN) = 1
    /\ CountType(parse_result.right, OP_GREATERTHAN) = 1

(***************************************************************************)
(* Properties of AST_execute.                                              *)
(***************************************************************************)
\* the open files that are ends of pipes
IsPipe(f) == f.kind = "pipe"

\* the child of stage i is at, or past, its exec with its descriptors as it set them
AtExec(i) == cpc[i] \in {"exec", "running"}

\* C2: when the child of stage i execs, its standard input is the read end of
\* pipe i-1 iff i > 0, its standard output is the write end of pipe i iff
\* i < N-1, every descriptor number stored in fds[][] is closed in it, and it
\* holds no pipe anywhere but on its standard input and output.
C2_ChildDescriptorsAtExec ==
    \A i \in Stages :
        AtExec(i) =>
            /\ IsPipe(cfd[i][STDIN_FILENO]) <=> i > 0
            /\ i > 0 => cfd[i][STDIN_FILENO] = PipeEnd(i - 1, "r")
            /\ IsPipe(cfd[i][STDOUT_FILENO]) <=> i < num_children - 1
            /\ i < num_children - 1 => cfd[i][STDOUT_FILENO] = PipeEnd(i, "w")
            /\ \A k \in Pipes : /\ cfd[i][fds[k][1]] = Closed
                                /\ cfd[i][fds[k][2]] = Closed
            /\ \A fd \in FdNums :
                 IsPipe(cfd[i][fd]) => fd \in {STDIN_FILENO, STDOUT_FILENO}

\* the middle child of a three-stage pipeline is about to exec, a pipe on its
\* standard input and another on its standard output
C2_Witness ==
    /\ num_pipes = 2
    /\ cpc[1] = "exec"
    /\ cfd[1][STDIN_FILENO] = PipeEnd(0, "r")
    /\ cfd[1][STDOUT_FILENO] = PipeEnd(1, "w")

\* the shell holds no descriptor of a pipe
ShellHoldsNoPipe == \A fd \in FdNums : ~IsPipe(pfd[fd])

\* C3: the shell closes both ends of every pipe after the stage loop and before
\* its first wait: it holds them all while it handles the stages, and none from
\* the first wait on.
C3_ParentClosesBeforeWait ==
    /\ ppc \in {"stage", "close"} =>
         \A k \in Pipes : Holds(pfd, k, "r") /\ Holds(pfd, k, "w")
    /\ ppc \in {"wait", "returned"} => ShellHoldsNoPipe

\* the shell is blocked in wait(): three children, all alive, none to reap yet
C3_Witness ==
    /\ ppc = "wait"
    /\ num_pipes = 2
    /\ \A i \in Stages : Alive(i)
    /\ ShellHoldsNoPipe

\* no child of the pipeline is left unreaped
AllReaped == \A i \in Stages : cpc[i] \in {"none", "reaped"}

\* C4 as claimed: every child has been reaped when the execute operation ends,
\* be it by the return or by the exit of an exit/quit stage.
C4_AsClaimed ==
    (ppc = "returned" \/ (ppc = "exited" /\ shell_status = 0)) => AllReaped

\* C4 amended: every child has been reaped when AST_execute returns; when the
\* shell terminates inside AST_execute it has not waited for any child.
C4_ReapedOnReturn ==
    /\ ppc = "returned" => AllReaped
    /\ ppc = "exited" => reaped = <<>>

\* AST_execute returned from a pipeline with a cd stage and two reaped children
C4_Witness ==
    /\ ppc = "returned"
    /\ num_pipes = 2
    /\ \E i \in Stages : cpc[i] = "none"
    /\ Len(reaped) = 2

\* the processes (the shell is -1, the child of stage i is i) that hold end e
\* of pipe k open
Holders(k, e) ==
    (IF Holds(pfd, k, e) THEN {-1} ELSE {})
    \cup {i \in Stages : Alive(i) /\ Holds(cfd[i], k, e)}

\* the shell has closed its pipe descriptors and every stage is set up: each
\* stage that forks has its child at or past exec, still running
AllSetUp ==
    /\ ppc \in {"wait", "returned"}
    /\ \A i \in Stages : cpc[i] \in {"none", "exec", "running"}

\* C5 as claimed: once all stages are set up and the shell has closed its own
\* descriptors, each end of each pipe is open in exactly one process.
C5_AsClaimed ==
    AllSetUp =>
        \A k \in Pipes : /\ Cardinality(Holders(k, "r")) = 1
                         /\ Cardinality(Holders(k, "w")) = 1

\* C5 amended: ... each end of each pipe is open in at most one process, the
\* child of the adjacent stage (the read end of pipe k in stage k+1, the write
\* end in stage k): in exactly that one when that stage forked a child, in
\* none when it is a cd stage.
C5_OneOwnerPerPipeEnd ==
    AllSetUp =>
        \A k \in Pipes :
            /\ Holders(k, "r") = (IF cpc[k + 1] = "none" THEN {} ELSE {k + 1})
            /\ Holders(k, "w") = (IF cpc[k] = "none" THEN {} ELSE {k})

\* three children at or past exec, the shell in wait(), each pipe end with its
\* one owner
C5_Witness ==
    /\ AllSetUp
    /\ num_pipes = 2
    /\ \A i \in Stages : cpc[i] = "running"
    /\ Holders(0, "r") = {1} /\ Holders(0, "w") = {0}
    /\ Holders(1, "r") = {2} /\ Holders(1, "w") = {1}

\* C6 as claimed: AST_execute eventually returns for every pipeline; so the
\* shell never terminates inside it at an exit/quit stage.
C6_AsClaimed == ~(ppc = "exited" /\ shell_status = 0)

\* C6 amended: every call of AST_execute eventually ends, by returning or by
\* terminating the shell (an exit/quit stage, a failed pipe() or fork()): the
\* shell never waits forever for a child that waits for end-of-file.
C6_ExecuteEnds == <>(ppc \in {"returned", "exited"})

\* the shell is in wait(); the last of three stages still runs with pipe 1 on
\* its standard input, stage 1 has ended and nobody holds the write end of
\* pipe 1 any more: the next read of the last stage meets end-of-file
C6_Witness ==
    /\ ppc = "wait"
    /\ num_pipes = 2
    /\ cpc[2] = "running"
    /\ cfd[2][STDIN_FILENO] = PipeEnd(1, "r")
    /\ cpc[1] \in {"zombie", "reaped"}
    /\ ~HeldBySomeone(1, "w")

\* the exit status of the non-zero-exiting child reaped last, 0 without one
RECURSIVE LastNonZero(_)
LastNonZero(order) ==
    IF order = <<>> THEN 0
    ELSE LET st == cstatus[order[Len(order)]]
         IN  IF WEXITSTATUS(st) # 0 THEN WEXITSTATUS(st)
             ELSE LastNonZero(SubSeq(order, 1, Len(order) - 1))

\* C7: AST_execute returns 0 if every child reaped exited with status 0, else
\* the exit status of the non-zero-exiting child reaped last, in whatever order
\* the children ended (the wait loop keeps this true of exit_val throughout).
C7_LastNonZeroWins ==
    ppc \in {"wait", "returned"} => exit_val = LastNonZero(reaped)

\* stage 1 was reaped before stage 0, both with non-zero exit statuses that
\* differ, and AST_execute returned that of stage 0
C7_Witness ==
    /\ ppc = "returned"
    /\ reaped = <<1, 0>>
    /\ WEXITSTATUS(cstatus[1]) # 0
    /\ WEXITSTATUS(cstatus[0]) # 0
    /\ WEXITSTATUS(cstatus[0]) # WEXITSTATUS(cstatus[1])
    /\ exit_val = WEXITSTATUS(cstatus[0])

\* C8 as claimed: AST_execute returns non-zero if some child ended with a
\* non-zero wait status (a non-zero exit code or a signal), and 0 otherwise.
C8_AsClaimed ==
    ppc = "returned" =>
        (exit_val # 0 <=> \E i \in Stages : cpc[i] = "reaped" /\ cstatus[i] # 0)

\* the child of stage i ended at line 1019, 1041, 1072 or 1081: it could not
\* open a redirection target or load its program
FailedChild(i) ==
    /\ cpc[i] \in {"zombie", "reaped"}
    /\ cstatus[i] = W_EXITCODE(EXIT_FAILURE)

\* C9 as claimed: when a child cannot open its redirection target or load its
\* program, the shell process does not terminate (here: not at an exit/quit stage).
C9_AsClaimed ==
    (\E i \in Stages : FailedChild(i)) => ~(ppc = "exited" /\ shell_status = 0)

\* such a child has a non-zero status, and a call that returns after it has
\* reaped every child and returns non-zero
C9_FailureReported ==
    \A i \in Stages :
        FailedChild(i) =>
            /\ WEXITSTATUS(cstatus[i]) # 0
            /\ ppc = "returned" => (AllReaped /\ exit_val # 0)

\* the step in which a child fails changes neither the shell nor another child
C9_FailureIsLocal ==
    \A i \in Stages :
        (~FailedChild(i) /\ FailedChild(i)') =>
            /\ UNCHANGED shellVars
            /\ \A j \in Stages \ {i} :
                 cpc'[j] = cpc[j] /\ cfd'[j] = cfd[j] /\ cstatus'[j] = cstatus[j]

\* C9 amended: a child that cannot open its redirection target or load its
\* program ends alone, with a non-zero status; whenever AST_execute returns
\* after it, every child forked has been reaped and the value returned is not
\* zero.  (The shell still terminates inside AST_execute when the pipeline has
\* an exit/quit stage or a pipe() or fork() fails.)
C9_FaultStaysInChild == []C9_FailureReported /\ [][C9_FailureIsLocal]_vars

\* stage 0 failed, stage 1 was forked all the same, ran, exited with 0 and was
\* reaped last; AST_execute returned EXIT_FAILURE
C9_Witness ==
    /\ ppc = "returned"
    /\ num_pipes = 1
    /\ FailedChild(0)
    /\ reaped = <<0, 1>>
    /\ cstatus[1] = 0
    /\ exit_val = EXIT_FAILURE

\* C10 as claimed: a failed pipe() or fork() does not terminate the shell
\* process, AST_execute still returns.
C10_AsClaimed == ~(ppc = "exited" /\ shell_status = EXIT_FAILURE)

(***************************************************************************)
(* Properties of the stage loop: the built-in commands, pipes and forks.   *)
(***************************************************************************)
\* the command name of stage i, as the user wrote it
CommandName(i) == At(argvs[i], 0)

\* stage i is an exit or quit stage
ExitStage(i) == CommandName(i) = "exit" \/ CommandName(i) = "quit"

\* no process was spawned for stage i or a stage behind it
NoneSpawnedFrom(i) == \A j \in Stages : j >= i => cpc[j] = "none"

\* whatever the state, a stage named exit or quit and the stages behind it have
\* no process
C11_NoProcessFromExitStage ==
    \A i \in Stages : ExitStage(i) => NoneSpawnedFrom(i)

\* the step the shell takes when its stage loop is at an exit or quit stage
\* terminates it with status 0
C11_ExitStageStep ==
    (ppc = "stage" /\ ExitStage(idx) /\ shellVars' # shellVars) =>
        /\ ppc' = "exited"
        /\ shell_status' = 0
        /\ childVars' = childVars

\* C11: when the stage loop reaches a stage named exit or quit, the next thing
\* the shell does is terminate with status 0, and it does so; no process is
\* ever spawned for that stage or for a stage behind it.
C11_ExitStageTerminatesShell ==
    /\ []C11_NoProcessFromExitStage
    /\ [][C11_ExitStageStep]_vars
    /\ \A i \in 0..(MaxStages - 1) :
         (ppc = "stage" /\ idx = i /\ ExitStage(i))
             ~> (ppc = "exited" /\ shell_status = 0 /\ idx = i)

\* `ls | quit | ls`: the shell terminated with status 0 at stage 1, a child for
\* stage 0 only
C11_Witness ==
    /\ ppc = "exited"
    /\ shell_status = 0
    /\ num_pipes = 2
    /\ idx = 1
    /\ CommandName(1) = "quit"
    /\ cpc[0] # "none"
    /\ cpc[1] = "none"
    /\ cpc[2] = "none"

\* the arguments of a stage: the words of its argv behind the command name,
\* the redirection operators and their file names left out
RECURSIVE Arguments(_)
Arguments(words) ==
    IF words = <<>> THEN <<>>
    ELSE IF Head(words) \in {"<", ">"}
         THEN Arguments(IF Len(words) > 1 THEN Tail(Tail(words)) ELSE <<>>)
         ELSE <<Head(words)>> \o Arguments(Tail(words))

\* the directory a cd stage names: its first argument, the home directory
\* without one
NamedDirectory(i) ==
    LET args == Arguments(Tail(argvs[i]))
    IN  IF args = <<>> THEN HomeDir ELSE args[1]

\* the cd stages the stage loop has gone through
CdStagesDone ==
    {i \in Stages : /\ CommandName(i) = "cd"
                    /\ (ppc \in {"close", "wait", "returned"} \/ i < idx)}

\* C12 as claimed: a cd stage forks no child, and the working directory of the
\* shell is the one it started in or one named by a cd stage gone through: the
\* first argument of the stage, the home directory when it has none.
C12_AsClaimed ==
    ppc \in {"stage", "close", "wait", "returned"} =>
        /\ \A i \in Stages : CommandName(i) = "cd" => cpc[i] = "none"
        /\ cwd \in {StartDir} \cup {NamedDirectory(i) : i \in CdStagesDone}

\* the number of stages: the pipe nodes of the tree plus one
N == CountType(pipeline, OP_PIPE) + 1

\* no stage is named exit, quit or cd
NoBuiltin == \A i \in 0..(N - 1) : CommandName(i) \notin {"exit", "quit", "cd"}

\* the pipes pipe() has made, the stages fork() has made a child for
PipesCreated == {k \in DOMAIN fds : fds[k] # <<-1, -1>>}
Forked == {i \in DOMAIN cpc : cpc[i] # "none"}

\* C13: for a pipeline of N stages without exit, quit and cd, N being the number
\* of pipe nodes plus one, AST_execute makes exactly N-1 pipes, all of them
\* before the first fork, and forks exactly N children, one for each stage: the
\* counts are reached when the stage loop is through (every pipe() and fork()
\* succeeded) and are never exceeded.
C13_PipesAndChildren ==
    NoBuiltin =>
        /\ num_pipes = N - 1
        /\ DOMAIN fds = 0..(N - 2)
        /\ DOMAIN cpc = 0..(N - 1)
        /\ ppc = "stage" => (PipesCreated = 0..(N - 2) /\ Forked = 0..(idx - 1))
        /\ ppc \in {"close", "wait", "returned"} =>
               (PipesCreated = 0..(N - 2) /\ Forked = 0..(N - 1))

\* AST_execute returned from `ls | ls | ls`: two pipes made, three children
\* forked and reaped
C13_Witness ==
    /\ ppc = "returned"
    /\ NoBuiltin
    /\ N = 3
    /\ Cardinality(PipesCreated) = 2
    /\ Cardinality(Forked) = 3
    /\ Len(reaped) = 3

(***************************************************************************)
(* Properties of the read loop.                                            *)
(***************************************************************************)
\* TOK_tokenize_input was called on the line and returned NULL
TokenizeFailed == input \in TokenizedLines /\ Tokenized[input].null

\* Parse was called on the tokens of the line and returned NULL
ParseFailedOnLine == parse_pc = "returned" /\ IsNull(parse_result)

\* main is at loop_end with a line that failed to tokenize or to parse
LineFailed == main_pc = "loop_end" /\ (TokenizeFailed \/ ParseFailedOnLine)

\* AST_execute has been called for the line, or a child process exists
ExecuteCalled == ppc # "idle" \/ \E i \in DOMAIN cpc : cpc[i] # "none"

\* AST_execute is called only on the pipeline Parse returned for the tokens of
\* the line, with nothing printed; a failing line ends with main's one message,
\* any other line without one
C14_OnlyParsedLinesExecute ==
    /\ ExecuteCalled =>
           /\ main_pc = "execute"
           /\ input \in TokenizedLines
           /\ ~Tokenized[input].null
           /\ stream = Tokenized[input].tokens
           /\ parse_pc = "returned"
           /\ ~IsNull(parse_result)
           /\ pipeline = parse_result
           /\ printed = <<>>
    /\ LineFailed =>
           /\ ~ExecuteCalled
           /\ Len(printed) = 1
           /\ printed[1] # ""
           /\ printed[1] = errmsg
    /\ (main_pc = "loop_end" /\ ~LineFailed) => printed = <<>>

\* from loop_end with a failing line main goes back to readline, no process
\* spawned
C14_BackToReading ==
    LineFailed =>
        /\ main_pc' = "read"
        /\ ~ExecuteCalled'
        /\ printed' = printed

\* C14: in the read loop no process is spawned for a line whose tokenization or
\* parsing fails: AST_execute is called only after TOK_tokenize_input and Parse
\* both succeeded on the line; a failing line prints exactly one message, and
\* main goes on to read the next line.
C14_FailFastReadLoop == []C14_OnlyParsedLinesExecute /\ [][C14_BackToReading]_vars

\* `ls<` typed after a `cd` line: Parse failed, its message printed once, no
\* process
C14_Witness ==
    /\ LineFailed
    /\ ParseFailedOnLine
    /\ cwd = HomeDir
    /\ printed = <<"Expect filename after redirection">>
    /\ ~ExecuteCalled

(***************************************************************************)
(* Properties of Parse: what it returns, what it frees, its messages.      *)
(***************************************************************************)
\* the tokens Parse has taken off the stream so far
Consumed == SubSeq(stream, 1, Len(stream) - Len(tokens))

HasType(toks, tt) == \E n \in 1..Len(toks) : toks[n].type = tt

\* Parse is at the top of its loop with a token of one of the types tts next
Meets(tts) == parse_pc = "loop" /\ TOK_next_type(tokens) \in tts

\* the type of the token behind the next one
TypeAfterNext == TOK_next_type(Tail(tokens))

\* this step is the error return of Parse with message msg
FailsWith(msg) ==
    /\ parse_pc' = "returned"
    /\ errmsg' = msg
    /\ IsNull(parse_result')

\* C15: Parse returns NULL with a non-empty message, or the accumulated AST with
\* an empty message, that AST being NULL only for the empty token stream; never
\* a non-NULL AST with a non-empty message.
C15_ResultOrMessage ==
    parse_pc = "returned" =>
        \/ /\ IsNull(parse_result)
           /\ errmsg # ""
        \/ /\ errmsg = ""
           /\ parse_result = ret
           /\ IsNull(parse_result) <=> stream = <<>>

\* Parse failed on the last token of a stream after it had built a pipeline
C15_Witness ==
    /\ parse_pc = "returned"
    /\ errmsg = "Expect filename after redirection"
    /\ IsNull(parse_result)
    /\ allocated >= 3
    /\ tokens = <<>>

\* C16: when Parse fails, every AST node malloc'ed during the call has been
\* free'd, and none twice: as many nodes free'd as malloc'ed at the error
\* return, never more free'd than malloc'ed, and on success exactly the nodes of
\* the returned tree still allocated.
C16_FailureFreesEveryNode ==
    /\ freed <= allocated
    /\ (parse_pc = "returned" /\ errmsg # "") => freed = allocated
    /\ (parse_pc = "returned" /\ errmsg = "") =>
           allocated - freed = AST_countnodes(parse_result)

\* `ls | ls | ls` with the pattern expansion of the last word failing: the
\* command node of line 122 was freed, then the pipeline with its left subtree
C16_Witness ==
    /\ parse_pc = "returned"
    /\ errmsg = "Glob encountered an error"
    /\ Len(stream) = 5
    /\ stream[2].type = TOK_PIPE
    /\ stream[4].type = TOK_PIPE
    /\ tokens = <<>>
    /\ allocated >= 5
    /\ freed = allocated

C18_OperatorFirst ==
    [][ (Meets({TOK_PIPE, TOK_LESSTHAN, TOK_GREATERTHAN}) /\ IsNull(ret))
            => (Consumed = <<>> /\ FailsWith("No command specified")) ]_vars

\* `> ls ...`: a redirection first, a file name behind it
C18_Witness ==
    /\ parse_pc = "returned"
    /\ errmsg = "No command specified"
    /\ Len(Consumed) = 1
    /\ Consumed[1].type = TOK_GREATERTHAN
    /\ TOK_next_type(tokens) = TOK_WORD

\* C19: whenever the token behind a | that Parse meets is no Word and no
\* QuotedWord (the end of the stream, or <, > or |), Parse fails with
\* "No command specified" and returns NULL.
C19_PipeWithoutCommand ==
    [][ (Meets({TOK_PIPE}) /\ TypeAfterNext \notin {TOK_WORD, TOK_QUOTED_WORD})
            => FailsWith("No command specified") ]_vars

\* `ls | ls | <`: the second | has a < behind it
C19_Witness ==
    /\ parse_pc = "returned"
    /\ errmsg = "No command specified"
    /\ Len(Consumed) = 4
    /\ Consumed[1].type = TOK_WORD
    /\ Consumed[4].type = TOK_PIPE
    /\ TOK_next_type(tokens) = TOK_LESSTHAN

\* C20: whenever Parse meets a < or > that follows a command and is the first
\* of its direction, and the token behind it is no Word (the end of the stream,
\* an operator, or a QuotedWord), it fails with "Expect filename after
\* redirection" and returns NULL.
C20_ExpectFilename ==
    [][ \A tt \in {TOK_LESSTHAN, TOK_GREATERTHAN} :
          (/\ Meets({tt})
           /\ ~IsNull(ret)
           /\ ~HasType(Consumed, tt)
           /\ TypeAfterNext # TOK_WORD)
              => FailsWith("Expect filename after redirection") ]_vars

\* `ls < ls > "q"`: the first > of the line, a QuotedWord behind it
C20_Witness ==
    /\ parse_pc = "returned"
    /\ errmsg = "Expect filename after redirection"
    /\ Len(Consumed) = 4
    /\ Consumed[2].type = TOK_LESSTHAN
    /\ Consumed[4].type = TOK_GREATERTHAN
    /\ TOK_next_type(tokens) = TOK_QUOTED_WORD

(***************************************************************************)
(* Properties of TOK_tokenize_input.                                       *)
(***************************************************************************)
\* the loop is at position n of the line, about to look at its character
TokAt(ch) == tok_pc = "loop" /\ CharAt(tok_line, tok_input) = ch

\* the positions of the line behind position n
Behind(n) == (n + 1)..Len(tok_line)

\* no double quote stands behind position n
NoQuoteBehind(n) == \A k \in Behind(n) : tok_line[k] # "\""

\* behind position n every backslash is followed by a character isescape accepts
NoIllegalEscapeBehind(n) ==
    \A k \in Behind(n) : tok_line[k] = "\\" => isescape(CharAt(tok_line, k + 1))

\* the tokens built when the loop meets a delimiter or a quote: those of the
\* list and the word in progress
BuiltSoFar == Len(tok_tokens) + (IF tok_start # 0 THEN 1 ELSE 0)

\* the call returned NULL with the message msg and released `built` tokens
TokFailedWith(msg, built) ==
    /\ tok_pc' = "returned"
    /\ tok_null'
    /\ tok_errmsg' = msg
    /\ tok_tokens' = <<>>
    /\ tok_freed' = built

\* a quote is met and the line ends before another quote, no illegal escape on
\* the way: the call fails with "Unterminated quote" and releases its tokens
C21_Step ==
    (TokAt("\"") /\ NoQuoteBehind(tok_input) /\ NoIllegalEscapeBehind(tok_input))
        => TokFailedWith("Unterminated quote", BuiltSoFar)

RECURSIVE IllegalPairFrom(_)
IllegalPairFrom(n) ==
    IF n > Len(tok_line) THEN FALSE
    ELSE IF tok_line[n] = "\\"
    THEN ~isescape(CharAt(tok_line, n + 1)) \/ IllegalPairFrom(n + 2)
    ELSE IllegalPairFrom(n + 1)

\* the messages "Illegal escape character c"
IllegalEscapeMessages == {IllegalEscape(c) : c \in LineAlphabet \cup {NUL}}

\* the call returned NULL with an illegal escape message
IllegalEscapeReported ==
    tok_pc = "returned" /\ tok_null /\ tok_errmsg \in IllegalEscapeMessages

\* C22: TOK_tokenize_input fails with "Illegal escape character c" and returns
\* no stream exactly when the second character of some escape pair is not one of
\* n, r, t, space, double quote, >, <, | or backslash, the pairs taken two
\* characters at a time from left to right, in quoted and unquoted regions
\* alike.
C22_AsClaimed == tok_pc = "returned" => (IllegalEscapeReported <=> IllegalPairFrom(1))

\* the first double quote at or behind position n that is not the second
\* character of an escape pair, the pairs taken two characters at a time; 0 when
\* the line has none
RECURSIVE UnescapedQuoteFrom(_)
UnescapedQuoteFrom(n) ==
    IF n > Len(tok_line) THEN 0
    ELSE IF tok_line[n] = "\\" THEN UnescapedQuoteFrom(n + 2)
    ELSE IF tok_line[n] = "\"" THEN n
    ELSE UnescapedQuoteFrom(n + 1)

\* the step appends the QuotedWord opened by the quote at tok_input
QuotedWordEmitted == TokAt("\"") /\ tok_pc' = "loop"

\* C23: inside a quoted region the scan goes on to the next unescaped double
\* quote: a double quote that is the second character of an escape pair does
\* not end the QuotedWord, which ends at the first double quote that is part of
\* no escape pair.
C23_AsClaimed ==
    [][QuotedWordEmitted => tok_input' = UnescapedQuoteFrom(tok_input + 1) + 1]_vars

\* the characters a..b of the line as a string: the contiguous substring
Text(a, b) == Str(SubSeq(tok_line, a, b))

\* positions a..b lie inside the line
IsSpan(a, b) == 1 <= a /\ a <= b /\ b <= Len(tok_line)

\* the tokens the step appended
NewTokens == SubSeq(tok_tokens', Len(tok_tokens) + 1, Len(tok_tokens'))

\* the word in progress, which a quote or a delimiter at tok_input ends: it
\* spans the positions from tok_start to the one before tok_input
PendingWord ==
    IF tok_start # 0 /\ (TokAt("\"") \/ TokAt("<") \/ TokAt(">") \/ TokAt("|") \/ TokAt(" "))
    THEN <<Token(TOK_WORD, Text(tok_start, tok_input - 1))>>
    ELSE <<>>

\* the token of the character at tok_input itself: the QuotedWord from its
\* opening quote to the quote that ended the scan, the operator, or the word
\* that the end of the line ends
OwnToken ==
    IF TokAt("\"") THEN <<Token(TOK_QUOTED_WORD, Text(tok_input, tok_input' - 1))>>
    ELSE IF TokAt("<") THEN <<Token(TOK_LESSTHAN, NullStr)>>
    ELSE IF TokAt(">") THEN <<Token(TOK_GREATERTHAN, NullStr)>>
    ELSE IF TokAt("|") THEN <<Token(TOK_PIPE, NullStr)>>
    ELSE IF TokAt(" ") THEN <<>>
    ELSE <<Token(TOK_WORD,
                 Text(IF tok_start # 0 THEN tok_start ELSE tok_input, Len(tok_line)))>>

\* a step that appends tokens appends the substrings of their spans, character
\* for character
C24_Step ==
    (tok_pc = "loop" /\ tok_pc' = "loop" /\ tok_tokens' # tok_tokens) =>
        /\ tok_tokens' = tok_tokens \o PendingWord \o OwnToken
        /\ TokAt("\"") =>
               /\ IsSpan(tok_input, tok_input' - 1)
               /\ tok_line[tok_input' - 1] = "\""
               /\ Len(tok_tokens'[Len(tok_tokens')].value) = tok_input' - tok_input
        /\ PendingWord # <<>> =>
               /\ IsSpan(tok_start, tok_input - 1)
               /\ Len(PendingWord[1].value) = tok_input - tok_start
        /\ (OwnToken # <<>> /\ OwnToken[1].type = TOK_WORD) =>
               /\ tok_input' = Len(tok_line) + 1
               /\ Len(OwnToken[1].value) =
                      Len(tok_line) + 1 - (IF tok_start # 0 THEN tok_start ELSE tok_input)

\* C24: on success the text of every Word and QuotedWord token is the exact
\* contiguous substring of the input the token spans: escape sequences stay as
\* their two characters, a QuotedWord keeps its two quotes, and the word flushed
\* at the end of the input holds no character from beyond the end.
C24_TokenTextIsItsSpan ==
    /\ [][C24_Step]_vars
    /\ [](tok_pc = "returned" =>
             \A k \in DOMAIN tok_tokens :
                 tok_tokens[k].type \in {TOK_WORD, TOK_QUOTED_WORD}
                     => Len(tok_tokens[k].value) \in 1..Len(tok_line))

\* `\|""a`: a word that is an escape pair, a quoted word, a word the end of the
\* line ends
C24_Witness ==
    /\ tok_pc = "returned"
    /\ ~tok_null
    /\ tok_line = <<"\\", "|", "\"", "\"", "a">>
    /\ tok_tokens = <<Token(TOK_WORD, "\\|"), Token(TOK_QUOTED_WORD, "\"\""),
                      Token(TOK_WORD, "a")>>

\* the types of the tokens the step appended
NewTypes == [k \in DOMAIN NewTokens |-> NewTokens[k].type]

\* the type of the word in progress, if there is one
PendingType == IF tok_start # 0 THEN <<TOK_WORD>> ELSE <<>>

\* the loop went on to the next character behind tok_input, no word in progress
NextCharacter == tok_pc' = "loop" /\ tok_input' = tok_input + 1 /\ tok_start' = 0

\* tok_tokens is the beginning of tok_tokens'
Appended ==
    /\ Len(tok_tokens') >= Len(tok_tokens)
    /\ SubSeq(tok_tokens', 1, Len(tok_tokens)) = tok_tokens

\* what the loop does with an operator, a blank and a quote it meets
C25_Step ==
    /\ tok_pc' = "loop" => Appended
    /\ TokAt("<") => (NextCharacter /\ NewTypes = PendingType \o <<TOK_LESSTHAN>>)
    /\ TokAt(">") => (NextCharacter /\ NewTypes = PendingType \o <<TOK_GREATERTHAN>>)
    /\ TokAt("|") => (NextCharacter /\ NewTypes = PendingType \o <<TOK_PIPE>>)
    /\ TokAt(" ") => (NextCharacter /\ NewTypes = PendingType)
    /\ QuotedWordEmitted =>
           (tok_start' = 0 /\ NewTypes = PendingType \o <<TOK_QUOTED_WORD>>)

\* the line is empty or made of white space only
OnlyWhiteSpace == \A k \in DOMAIN tok_line : isspace(tok_line[k])

\* C25: TOK_tokenize_input emits tokens in input order: an unescaped <, > or |
\* outside quotes ends the pending word and yields exactly one operator token,
\* an unescaped white space outside quotes ends the pending word and yields no
\* token, a double quote ends the pending word before the QuotedWord starts; so
\* the empty line and a line of white space yield an empty stream and an empty
\* message.
C25_DelimitersEndWords ==
    /\ [][C25_Step]_vars
    /\ []((tok_pc = "returned" /\ OnlyWhiteSpace)
             => (~tok_null /\ tok_tokens = <<>> /\ tok_errmsg = "" /\ tok_freed = 0))

\* `a|a""`: a word ended by an operator, a word ended by a quote
C25_Witness ==
    /\ tok_pc = "returned"
    /\ ~tok_null
    /\ tok_errmsg = ""
    /\ tok_line = <<"a", "|", "a", "\"", "\"">>
    /\ [k \in DOMAIN tok_tokens |-> tok_tokens[k].type]
           = <<TOK_WORD, TOK_PIPE, TOK_WORD, TOK_QUOTED_WORD>>

(***************************************************************************)
(* Properties of AST_pipeline2str.                                         *)
(***************************************************************************)
\* C28: for every non-empty AST and every buffer capacity of at least 1,
\* AST_pipeline2str reads and writes only bytes buf[0] .. buf[capacity - 1] and
\* leaves a terminator among them; it writes neither in front of the buffer nor
\* behind it.
C28_AsClaimed ==
    (~IsNull(str_pipeline) /\ buf_sz >= 1) =>
        /\ outside = {}
        /\ str_pc # "aborted"
        /\ str_pc = "returned" => Terminated

\* the characters of an item AST_sprint prints: a word, or an operator
ItemChars(item) == IF item \in {"<", ">", "|"} THEN <<item>> ELSE Chars(item)

\* the full rendering of the items as characters: one blank between two items,
\* none at the end
RECURSIVE JoinChars(_)
JoinChars(items) ==
    IF items = <<>> THEN <<>>
    ELSE IF Len(items) = 1 THEN ItemChars(items[1])
    ELSE ItemChars(items[1]) \o <<" ">> \o JoinChars(Tail(items))

Rendering == JoinChars(AST_sprint(str_pipeline))

\* s is the beginning of t
IsPrefix(s, t) == Len(s) <= Len(t) /\ SubSeq(t, 1, Len(s)) = s

\* the call returned for a non-empty pipeline and a buffer with room for the
\* marker and the terminator
Rendered == str_pc = "returned" /\ ~IsNull(str_pipeline) /\ buf_sz >= 2

\* C29: if the full rendering of the AST (tokens joined by single blanks, none
\* at the end) and its terminator fit the buffer, AST_pipeline2str leaves exactly
\* that rendering, no character replaced by the marker; if they do not fit, the
\* buffer holds a beginning of the rendering, then one '$', then the terminator.
C29_AsClaimed ==
    Rendered =>
        /\ Terminated
        /\ IF Len(Rendering) + 1 <= buf_sz
           THEN BufChars = Rendering
           ELSE /\ strlen >= 1
                /\ BufChars[strlen] = "$"
                /\ IsPrefix(SubSeq(BufChars, 1, strlen - 1), Rendering)

\* C30: the value AST_pipeline2str returns is the length of the terminated
\* string it left in the buffer, the terminator not counted, for every AST and
\* every capacity, truncated output included.
C30_AsClaimed == str_pc = "returned" => (Terminated /\ size = strlen)


(***************************************************************************)
(* Properties of a line taken through the tokenizer, the parser and the    *)
(* printer.                                                                *)
(***************************************************************************)
\* the line holds plain word characters, blanks and operators: no quote, no backslash
PlainLine(line) == \A k \in DOMAIN line : line[k] \in {"a", " ", "<", ">", "|"}

\* the words and operators of a plain line, in order, each as its characters
RECURSIVE Pieces(_, _, _)
Pieces(line, n, word) ==
    LET flush == IF word = <<>> THEN <<>> ELSE <<word>>
    IN IF n > Len(line) THEN flush
       ELSE IF line[n] = " " THEN flush \o Pieces(line, n + 1, <<>>)
       ELSE IF line[n] \in {"<", ">", "|"}
            THEN flush \o <<(<<line[n]>>)>> \o Pieces(line, n + 1, <<>>)
       ELSE Pieces(line, n + 1, Append(word, line[n]))

\* pieces joined by single blanks
RECURSIVE SingleSpaced(_)
SingleSpaced(ps) ==
    IF ps = <<>> THEN <<>>
    ELSE IF Len(ps) = 1 THEN ps[1]
    ELSE ps[1] \o <<" ">> \o SingleSpaced(Tail(ps))

\* every token gave one node: every Word expanded to itself
SelfExpanded(toks, p) == ~IsNull(p) /\ AST_countnodes(p) = Len(toks)

\* the line has been tokenized, parsed and printed, and nothing else yet
PrintedOnce == str_pc = "returned" /\ Len(passes) = 0

\* C26: a line of plain words and operators that was tokenized, parsed with
\* every Word expanding to itself, and printed into a large buffer comes back
\* as its words and operators in order, separated by single blanks.
C26_PlainLineRoundTrip ==
    (PrintedOnce /\ PlainLine(tok_line) /\ SelfExpanded(stream, str_pipeline))
        => BufChars = SingleSpaced(Pieces(tok_line, 1, <<>>))

\* the line a|a<a has come back as a | a < a
C26_Witness ==
    /\ PrintedOnce
    /\ tok_line = <<"a", "|", "a", "<", "a">>
    /\ SelfExpanded(stream, str_pipeline)
    /\ BufChars = <<"a", " ", "|", " ", "a", " ", "<", " ", "a">>


\* the string printed for the line is being taken through the same steps
SecondPass == Len(passes) = 1

\* C27 as stated: the string printed for a pipeline tokenizes; parsed with
\* every Word expanding to itself it gives a pipeline of as many nodes as
\* the first, and that pipeline is printed as the same string.
C27_AsClaimed ==
    /\ (SecondPass /\ tok_pc = "returned") => ~tok_null
    /\ (SecondPass /\ parse_pc = "returned" /\ SelfExpanded(stream, parse_result))
           => AST_countnodes(parse_result) = AST_countnodes(passes[1].pipeline)
    /\ (Len(passes) = 2 /\ SelfExpanded(passes[2].tokens, passes[2].pipeline))
           => passes[2].str = passes[1].str


(***************************************************************************)
(* Properties of Parse: the shape of the pipeline it returns.              *)
(***************************************************************************)
IsRedirect(type) == type = OP_LESSTHAN \/ type = OP_GREATERTHAN

\* c and the nodes behind it are no pipes and have no left child, and each
\* redirection among them has a Word right behind it
RECURSIVE PlainChain(_)
PlainChain(c) ==
    \/ IsNull(c)
    \/ /\ c.type # OP_PIPE
       /\ IsNull(c.left)
       /\ IsRedirect(c.type) => (~IsNull(c.right) /\ c.right.type = WORD)
       /\ PlainChain(c.right)

\* a non-empty chain that starts with the name of a command
CommandChain(c) == ~IsNull(c) /\ isword(c.type) /\ PlainChain(c)

\* pipes at the root and down the left children only, a command chain at the
\* bottom and to the right of every pipe
RECURSIVE LeftSpine(_)
LeftSpine(p) ==
    IF ~IsNull(p) /\ p.type = OP_PIPE
    THEN LeftSpine(p.left) /\ CommandChain(p.right)
    ELSE CommandChain(p)

\* C31: every non-empty AST Parse returns has its pipes at the root and along
\* the left children only; the leftmost chain and the right child of every pipe
\* are non-empty chains without pipes that start with a Word or QuotedWord;
\* every redirection has a Word right behind it; and the tree has exactly one
\* place for every node still allocated, so no node hangs under two parents.
C31_WellFormedPipeline ==
    (parse_pc = "returned" /\ ~IsNull(parse_result)) =>
        /\ LeftSpine(parse_result)
        /\ AST_countnodes(parse_result) = allocated - freed

\* three stages were returned, a redirection in the second one with words behind it
C31_Witness ==
    /\ parse_pc = "returned"
    /\ CountType(parse_result, OP_PIPE) = 2
    /\ CountType(parse_result.left.right, OP_GREATERTHAN) = 1
    /\ AST_countnodes(parse_result.left.right) >= 4
    /\ isword(parse_result.right.type)


(***************************************************************************)
(* Properties of Parse: redirections.                                      *)
(***************************************************************************)
\* the iteration before this one handled a < or >: the node appended last is a
\* redirection (its operator and its file name are the last two tokens taken)
LastAppendedIsRedirect ==
    /\ Len(Consumed) >= 2
    /\ Consumed[Len(Consumed) - 1].type \in {TOK_LESSTHAN, TOK_GREATERTHAN}

\* C33 as stated: whenever Parse meets a < or > and the node it appended last
\* is a redirection, it fails with "No command specified".
C33_AsClaimed ==
    [][ (Meets({TOK_LESSTHAN, TOK_GREATERTHAN}) /\ LastAppendedIsRedirect)
            => FailsWith("No command specified") ]_vars

\* C33: whenever Parse meets a < or > and the node it appended last is a
\* redirection, it does not fail with "No command specified": it fails with
\* "Multiple redirection" when the direction was seen before, else with
\* "Expect filename after redirection" when no Word follows, and else takes
\* the file name and either appends the redirection and goes on, or fails
\* because pattern expansion failed.
C33_RedirectAfterRedirect ==
    [][ \A tt \in {TOK_LESSTHAN, TOK_GREATERTHAN} :
          (Meets({tt}) /\ LastAppendedIsRedirect) =>
              IF HasType(Consumed, tt) THEN FailsWith("Multiple redirection")
              ELSE IF TypeAfterNext # TOK_WORD
                   THEN FailsWith("Expect filename after redirection")
              ELSE \/ FailsWith("Glob encountered an error")
                   \/ /\ parse_pc' = "loop"
                      /\ errmsg' = ""
                      /\ CountType(ret', tt) = 1
                      /\ tokens' = Tail(Tail(tokens)) ]_vars

\* `ls > ls < ls`: the < came right behind the redirection of the output and
\* was appended; Parse is back at the top of its loop
C33_Witness ==
    /\ parse_pc = "loop"
    /\ Len(Consumed) = 5
    /\ Consumed[2].type = TOK_GREATERTHAN
    /\ Consumed[4].type = TOK_LESSTHAN
    /\ CountType(ret, OP_GREATERTHAN) = 1
    /\ CountType(ret, OP_LESSTHAN) = 1
    /\ errmsg = ""


\* the types of the nodes of a chain, in order
RECURSIVE ChainTypes(_)
ChainTypes(c) == IF IsNull(c) THEN <<>> ELSE <<c.type>> \o ChainTypes(c.right)

\* the stream is a command of words followed by one redirection of each
\* direction, d1 first and d2 second, and nothing else
OneCommandTwoRedirects(d1, d2) ==
    \E n \in 1..(Len(stream) - 4) :
        /\ Len(stream) = n + 4
        /\ \A k \in 1..n : stream[k].type \in {TOK_WORD, TOK_QUOTED_WORD}
        /\ stream[n + 1].type = d1
        /\ stream[n + 2].type = TOK_WORD
        /\ stream[n + 3].type = d2
        /\ stream[n + 4].type = TOK_WORD

\* in the chain c every node of type t has a Word right behind it, and there
\* is exactly one such node
OneRedirectWithFile(c, t) ==
    /\ CountType(c, t) = 1
    /\ \E k \in 1..(Len(ChainTypes(c)) - 1) :
          ChainTypes(c)[k] = t /\ ChainTypes(c)[k + 1] = WORD

\* C34: a command with exactly one < and one > redirection, in either order,
\* parses unless pattern expansion fails: Parse returns a non-NULL AST with an
\* empty message that holds both redirection nodes, each with its file name
\* Word right behind it.
C34_BothRedirectionsAccepted ==
    \A d1, d2 \in {TOK_LESSTHAN, TOK_GREATERTHAN} :
        (/\ d1 # d2
         /\ OneCommandTwoRedirects(d1, d2)
         /\ parse_pc = "returned"
         /\ errmsg # "Glob encountered an error")
            => /\ ~IsNull(parse_result)
               /\ errmsg = ""
               /\ tokens = <<>>
               /\ OneRedirectWithFile(parse_result, OP_LESSTHAN)
               /\ OneRedirectWithFile(parse_result, OP_GREATERTHAN)

\* `ls "q" > ls < ls` was parsed: the output redirection first, then the input
C34_Witness ==
    /\ parse_pc = "returned"
    /\ errmsg = ""
    /\ OneCommandTwoRedirects(TOK_GREATERTHAN, TOK_LESSTHAN)
    /\ Len(stream) = 6
    /\ stream[2].type = TOK_QUOTED_WORD
    /\ ChainTypes(parse_result) = <<WORD, QUOTED_WORD, OP_GREATERTHAN, WORD, OP_LESSTHAN, WORD>>


(***************************************************************************)
(* Properties of Parse: what each token adds to the pipeline.              *)
(***************************************************************************)
\* the nodes of a pipeline from left to right, each as its type and value: the
\* left operand of a pipe, the pipe, its right chain
RECURSIVE Nodes(_)
Nodes(p) ==
    IF IsNull(p) THEN <<>>
    ELSE IF p.type = OP_PIPE
         THEN Nodes(p.left) \o <<[type |-> OP_PIPE, value |-> NullStr]>> \o Nodes(p.right)
    ELSE <<[type |-> p.type, value |-> p.value]>> \o Nodes(p.right)

\* the nodes this iteration added behind those the pipeline had
Added == SubSeq(Nodes(ret'), Len(Nodes(ret)) + 1, Len(Nodes(ret')))

\* this iteration ended without an error and left the nodes it found in place
GoesOn ==
    /\ parse_pc' = "loop"
    /\ errmsg' = ""
    /\ SubSeq(Nodes(ret'), 1, Len(Nodes(ret))) = Nodes(ret)

\* Word nodes for the names pathv, in order
WordNodes(pathv) == [k \in DOMAIN pathv |-> [type |-> WORD, value |-> pathv[k]]]

\* what pattern expansion of value can produce when it does not fail
Expansions(value) == {g.pathv : g \in {o \in GlobOutcomes(value) : o.exit = 0}}

QuotedNode(value) == [type |-> QUOTED_WORD, value |-> value]

\* C35: a QuotedWord token always becomes exactly one QuotedWord node with the
\* text of the token, as an argument and as the first token behind a pipe, with
\* no outcome of pattern expansion having a say (no failure, no other names);
\* a Word token adds the names of one expansion of its text as Word nodes, in
\* the order produced, or Parse fails because the expansion failed.
C35_Step ==
    /\ Meets({TOK_QUOTED_WORD}) =>
           /\ GoesOn
           /\ Added = <<QuotedNode(Head(tokens).value)>>
    /\ (Meets({TOK_PIPE}) /\ ~IsNull(ret) /\ TypeAfterNext = TOK_QUOTED_WORD) =>
           /\ GoesOn
           /\ Added = <<[type |-> OP_PIPE, value |-> NullStr],
                        QuotedNode(Head(Tail(tokens)).value)>>
    /\ Meets({TOK_WORD}) =>
           \/ FailsWith("Glob encountered an error")
           \/ /\ GoesOn
              /\ \E pathv \in Expansions(Head(tokens).value) : Added = WordNodes(pathv)
    /\ (Meets({TOK_PIPE}) /\ ~IsNull(ret) /\ TypeAfterNext = TOK_WORD) =>
           \/ FailsWith("Glob encountered an error")
           \/ /\ GoesOn
              /\ \E pathv \in Expansions(Head(Tail(tokens)).value) :
                    Added = <<[type |-> OP_PIPE, value |-> NullStr]>> \o WordNodes(pathv)

C35_QuotedWordsVerbatim == [][C35_Step]_vars

\* `ls "q" | "q"` was parsed with the Word expanded to two names: both quoted
\* words are single QuotedWord nodes with their text
C35_Witness ==
    /\ parse_pc = "returned"
    /\ Len(stream) = 4
    /\ Nodes(parse_result) = WordNodes(<<"a", "b">>)
                             \o <<QuotedNode("\"q\""),
                                  [type |-> OP_PIPE, value |-> NullStr],
                                  QuotedNode("\"q\"")>>


(***************************************************************************)
(* Properties of AST_execute: working directories.                         *)
(***************************************************************************)
\* the stages the stage loop is through with
StagesHandled ==
    IF ppc = "pipe" THEN 0
    ELSE IF ppc \in {"stage", "exited"} THEN idx
    ELSE num_children

\* one of the stages a..b is a cd stage
CdAmong(a, b) == \E k \in a..b : k \in Stages /\ CommandName(k) = "cd"

\* what holds of the directories in every state: a child forked before every cd
\* stage has the directory the shell started in; two children with no cd stage
\* between them have the same directory; a child with no cd stage handled after
\* it has the directory the shell has now
C36_Directories ==
    ppc # "idle" =>
        \A j \in Forked :
            /\ ~CdAmong(0, j - 1) => ccwd[j] = StartDir
            /\ ~CdAmong(j + 1, StagesHandled - 1) => ccwd[j] = cwd
            /\ \A k \in Forked : (j < k /\ ~CdAmong(j + 1, k - 1)) => ccwd[j] = ccwd[k]

\* what holds of every step: a child forked keeps its directory whatever the
\* shell does afterwards, and a child being forked gets the shell's directory
C36_Step ==
    \A j \in DOMAIN cpc :
        /\ j \in Forked => (j \in DOMAIN ccwd' /\ ccwd'[j] = ccwd[j])
        /\ (j \notin Forked /\ cpc'[j] # "none") => ccwd'[j] = cwd

\* C36: in a pipeline with a cd stage at position i, the children of the stages
\* before i run in the directory that was current before the change, the
\* children of the stages after i start in the directory current after it, and
\* a child already forked is not affected by a later change.
C36_CdAffectsLaterStagesOnly == []C36_Directories /\ [][C36_Step]_vars

\* `ls | cd d | ls`: the first child still runs in the directory the shell
\* started in, the shell has changed to d, the last child started there
C36_Witness ==
    /\ num_children = 3
    /\ CommandName(1) = "cd"
    /\ cpc[0] = "running"
    /\ ccwd[0] = StartDir
    /\ cwd = "d"
    /\ cpc[2] # "none"
    /\ ccwd[2] = "d"


(***************************************************************************)
(* Properties of AST_execute: redirections and pipes of a stage.           *)
(***************************************************************************)
\* the chain of stage i (0-based, from the left) of pipeline p with n stages
RECURSIVE StageOf(_, _, _)
StageOf(p, i, n) ==
    IF p.type = OP_PIPE
    THEN IF i = n - 1 THEN p.right ELSE StageOf(p.left, i, n - 1)
    ELSE p

\* stage i of the pipeline executed holds a redirection node of type t
StageRedirects(i, t) == CountType(StageOf(pipeline, i, num_children), t) = 1

\* stage i writes to a pipe and has a > node; it reads from a pipe and has a <
OutputFileAndPipe(i) == i < num_children - 1 /\ StageRedirects(i, OP_GREATERTHAN)
InputFileAndPipe(i) == i > 0 /\ StageRedirects(i, OP_LESSTHAN)

\* in every state: when the child of such a stage has done its redirections the
\* file is open on the standard stream, and when it is at the exec or behind
\* it the pipe is
C37_Streams ==
    \A i \in DOMAIN cpc :
        /\ (OutputFileAndPipe(i) /\ cpc[i] = "wire") => cfd[i][STDOUT_FILENO] = File("w")
        /\ (OutputFileAndPipe(i) /\ AtExec(i)) => cfd[i][STDOUT_FILENO] = PipeEnd(i, "w")
        /\ (InputFileAndPipe(i) /\ cpc[i] = "wire") => cfd[i][STDIN_FILENO] = File("r")
        /\ (InputFileAndPipe(i) /\ AtExec(i)) => cfd[i][STDIN_FILENO] = PipeEnd(i - 1, "r")

\* in every step: the child of such a stage gets to the exec only from the
\* state in which the file was open, the file being closed by the wiring: no
\* descriptor of the child names it at the exec
C37_Step ==
    \A i \in DOMAIN cpc :
        ((OutputFileAndPipe(i) \/ InputFileAndPipe(i)) /\ cpc[i] # "exec" /\ cpc'[i] = "exec")
            => /\ cpc[i] = "wire"
               /\ OutputFileAndPipe(i) => \A fd \in FdNums : cfd'[i][fd] # File("w")
               /\ InputFileAndPipe(i) => \A fd \in FdNums : cfd'[i][fd] # File("r")

\* C37: when a stage has an output redirection and is not the last, or an input
\* redirection and is not the first, the file is opened (the output file
\* created or truncated) and put on the standard stream, and then the pipe is
\* put on that stream in its place: at the exec the stream is the pipe, not
\* the file.
C37_PipeWinsOverFile == []C37_Streams /\ [][C37_Step]_vars

\* `ls > f | ls < f`: both children run, each with the pipe where its
\* redirection had put the file
C37_Witness ==
    /\ num_children = 2
    /\ OutputFileAndPipe(0)
    /\ InputFileAndPipe(1)
    /\ cpc[0] = "running"
    /\ cpc[1] = "running"
    /\ cfd[0][STDOUT_FILENO] = PipeEnd(0, "w")
    /\ cfd[1][STDIN_FILENO] = PipeEnd(0, "r")


(***************************************************************************)
(* Properties of AST_execute: the argv of a stage.                         *)
(***************************************************************************)
\* the values of the Word and QuotedWord nodes of a chain in order, without the
\* Word right behind a redirection node (its file name)
RECURSIVE ArgumentsOf(_)
ArgumentsOf(c) ==
    IF IsNull(c) THEN <<>>
    ELSE IF IsRedirect(c.type)
         THEN ArgumentsOf(IF IsNull(c.right) THEN NULL ELSE c.right.right)
    ELSE <<c.value>> \o ArgumentsOf(c.right)

\* the child of stage i has done its redirections
Redirected(i) == cpc[i] \in {"wire", "exec", "running"}

\* C38 as stated: a stage performs a redirection only if its chain holds a
\* redirection node, and the values of its Word and QuotedWord arguments,
\* whatever they are, are in the argv the program gets, none of them taken for
\* an operator or a file name.
C38_AsClaimed ==
    \A i \in DOMAIN cpc :
        /\ (cpc[i] = "wire" /\ ~StageRedirects(i, OP_LESSTHAN))
               => cfd[i][STDIN_FILENO].kind # "file"
        /\ (cpc[i] = "wire" /\ ~StageRedirects(i, OP_GREATERTHAN))
               => cfd[i][STDOUT_FILENO].kind # "file"
        /\ Redirected(i) => cargv[i] = ArgumentsOf(StageOf(pipeline, i, num_children))


\* in every state: the child of a stage, when it is at the exec or behind it,
\* has as its argv the arguments of its chain, the name of the command first
C32_Argv ==
    \A i \in DOMAIN cpc :
        AtExec(i) =>
            /\ cargv[i] = ArgumentsOf(StageOf(pipeline, i, num_children))
            /\ At(cargv[i], 0) = StageOf(pipeline, i, num_children).value

\* in every step: a child is forked for the stage the loop is at, the stages
\* to the left of it having been handled (a child forked, or a cd carried out)
C32_Order ==
    \A i \in DOMAIN cpc :
        (cpc[i] = "none" /\ cpc'[i] # "none") =>
            /\ i = idx
            /\ ppc = "stage"
            /\ \A j \in 0..(i - 1) : cpc[j] # "none" \/ CommandName(j) = "cd"

\* C32 as stated: AST_execute handles and spawns the stages from left to right,
\* stage 0 being the leftmost command, and the argv the child of a stage execs
\* with is the Word and QuotedWord values of the stage's chain in order, every
\* redirection operator and its file name removed, argv[0] the command name.
C32_AsClaimed == []C32_Argv /\ [][C32_Order]_vars


(***************************************************************************)
(* Properties of Parse: the tokens it takes and the nodes it makes.        *)
(***************************************************************************)
\* the number of tokens of type tt in toks
CountTokens(toks, tt) == Cardinality({n \in 1..Len(toks) : toks[n].type = tt})

\* every Word token of the stream gave exactly one Word node: as many Word
\* nodes in the pipeline as Word tokens in the stream, no expansion giving none
SingleExpansions(toks, p) == CountType(p, WORD) = CountTokens(toks, TOK_WORD)

\* in every state: a successful Parse has left no token in the stream, and
\* with single expansions the pipeline has as many nodes as the stream had tokens
C39_Returned ==
    (parse_pc = "returned" /\ errmsg = "") =>
        /\ tokens = <<>>
        /\ SingleExpansions(stream, parse_result)
               => AST_countnodes(parse_result) = Len(stream)

\* in every step of the loop: the tokens left are the tokens there were without
\* the first or the first two, and they are a tail of the stream handed in
C39_Step ==
    parse_pc = "loop" =>
        /\ \/ tokens' = tokens /\ tokens = <<>> /\ parse_pc' = "returned"
           \/ tokens # <<>> /\ tokens' = Tail(tokens)
           \/ Len(tokens) >= 2 /\ tokens' = Tail(Tail(tokens))
        /\ tokens' = SubSeq(stream, Len(stream) - Len(tokens') + 1, Len(stream))
        /\ stream' = stream

\* C39: Parse takes each token once, from the front of the stream; after a
\* successful Parse the stream is empty, and when every Word expanded to
\* exactly one name AST_countnodes of the AST returned is the number of tokens
\* the stream held.
C39_EveryTokenOnce == []C39_Returned /\ [][C39_Step]_vars

\* `ls "q" < ls | ls ls` was parsed with every Word expanding to one name:
\* the stream of seven tokens gave seven nodes
C39_Witness ==
    /\ parse_pc = "returned"
    /\ errmsg = ""
    /\ Len(stream) = 7
    /\ tokens = <<>>
    /\ CountTokens(stream, TOK_PIPE) = 1
    /\ CountTokens(stream, TOK_LESSTHAN) = 1
    /\ CountTokens(stream, TOK_QUOTED_WORD) = 1
    /\ SingleExpansions(stream, parse_result)
    /\ AST_countnodes(parse_result) = 7


(***************************************************************************)
(* Properties of Parse: the assertions of the node constructors.           *)
(***************************************************************************)
\* the node of type t of a pipeline that holds one: in the right chain, or
\* under the left operand of a pipe
RECURSIVE NodeOfType(_, _)
NodeOfType(p, t) ==
    IF IsNull(p) THEN NULL
    ELSE IF p.type = t THEN p
    ELSE IF ~IsNull(NodeOfType(p.right, t)) THEN NodeOfType(p.right, t)
    ELSE NodeOfType(p.left, t)

\* what holds of an iteration of Parse, whatever glob answered (one name at
\* least, or an error): every constructor call it made had arguments that pass
\* the constructor's assertions.  The calls are those of lines 61 and 40 for a
\* QuotedWord and a Word, of lines 40 and 105 for a redirection that passed the
\* checks, of lines 122, 40 and 135 for a pipe that passed them.
C40_Step ==
    (parse_pc = "loop" /\ tokens # <<>>) =>
        LET tt == Head(tokens).type
            value == Head(tokens).value
        IN  /\ tt = TOK_QUOTED_WORD => AST_word_asserts(tt, value)
            /\ (tt \in {TOK_WORD, TOK_LESSTHAN, TOK_GREATERTHAN, TOK_PIPE} /\ GoesOn) =>
                   \A k \in DOMAIN Added :
                       isword(Added[k].type)
                           => AST_word_asserts(Added[k].type, Added[k].value)
            /\ (tt \in {TOK_LESSTHAN, TOK_GREATERTHAN} /\ GoesOn) =>
                   /\ Added[1].type = tt
                   /\ AST_redirect_asserts(tt, NodeOfType(ret', tt).right)
            /\ (tt = TOK_PIPE /\ ~FailsWith("No command specified")) =>
                   AST_word_asserts(TypeAfterNext, Head(Tail(tokens)).value)
            /\ (tt = TOK_PIPE /\ GoesOn) =>
                   /\ ret'.type = OP_PIPE
                   /\ ret'.left = ret
                   /\ AST_pipe_asserts(ret'.left, ret'.right)

\* C40: whatever the token stream, as long as pattern expansion returns at
\* least one name for each word, no call Parse makes breaks an assertion of
\* the node constructors: AST_word gets a value that is not NULL and a word
\* type, AST_redirect a right operand that is not NULL and of type WORD,
\* AST_pipe a left and a right operand that are not NULL.
C40_ConstructorAssertionsHold == [][C40_Step]_vars

\* `ls < ls | "q"` was parsed, the file name expanding to two names: AST_word,
\* AST_redirect and AST_pipe were all called
C40_Witness ==
    /\ parse_pc = "returned"
    /\ errmsg = ""
    /\ Len(stream) = 5
    /\ parse_result.type = OP_PIPE
    /\ parse_result.right = AST_word(QUOTED_WORD, NULL, "\"q\"")
    /\ CountType(parse_result.left, OP_LESSTHAN) = 1
    /\ AST_countnodes(NodeOfType(parse_result, OP_LESSTHAN).right) = 2

====
